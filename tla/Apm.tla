-------------------------------- MODULE Apm --------------------------------
(***************************************************************************)
(* Power management (drivers/cpu/apm.c). Each operation is a series of     *)
(* BIOS calls that brings the interface as far as the next one needs it;   *)
(* three flags remember how far that is. A call may fail, and the          *)
(* operation goes on: what it asks for later may be done or fail in turn.  *)
(* One step is one call. The rest of the kernel calls only apm_shutdown;   *)
(* the other operations are what apm.h offers.                             *)
(***************************************************************************)
EXTENDS Sequences

VARIABLES
  isAPM, is_apm_connected, isPM,
  bios,       \* the BIOS: [apm, connected, pm]; power management is kept over a disconnect
  operation, todo,      \* the operation under way and its calls to come
  failed,     \* history: a call of this operation failed
  power       \* history: the last power state asked for in this operation, and how the BIOS was then

apmvars == <<isAPM, is_apm_connected, isPM, bios, operation, todo, failed, power>>

NoState == [state |-> "none", ready |-> FALSE]
ApmInit ==
  /\ isAPM = FALSE /\ is_apm_connected = FALSE /\ isPM = FALSE
  /\ bios \in [apm : BOOLEAN, connected : {FALSE}, pm : {FALSE}]
  /\ operation = "none" /\ todo = <<>> /\ failed = FALSE /\ power = NoState

-----------------------------------------------------------------------------
(* The calls of each operation. "Once": only if its flag does not say so already; apm_setPowerState
   and apm_chPM look again at what their callers looked at, so a call that failed is tried again. *)

chPM(call) == <<"checkOnce", "connectOnce", call>>
setPowerState(state) == <<"checkOnce", "connectOnce", "enableOnce", state>>
To(state) == <<"check", "connectOnce", "enableOnce">> \o setPowerState(state)
Calls ==
  [connect_interface |-> <<"checkOnce", "connect">>, disconnect_interface |-> <<"checkOnce", "disconnect">>,
   chVersion |-> <<"checkOnce", "connectOnce", "version">>,
   chPM1 |-> chPM("enable"), chPM0 |-> chPM("disable"),
   standby |-> To("standby"), shutdown |-> To("off"), restart |-> To("off"),
   suspend |-> <<"check", "reconnect", "enableOnce">> \o setPowerState("suspend"),
   init_apm |-> <<"check", "checkOnce", "connect", "checkOnce", "connectOnce", "version">> \o chPM("enable") \o To("standby")]
States == [standby |-> "standby", shutdown |-> "off", restart |-> "off", suspend |-> "suspend", init_apm |-> "standby"]

Begin(o) ==
  /\ todo = <<>> /\ todo' = Calls[o] /\ operation' = o /\ failed' = FALSE /\ power' = NoState
  /\ UNCHANGED <<isAPM, is_apm_connected, isPM, bios>>

-----------------------------------------------------------------------------
(* The steps. *)

Later == Tail(todo)
\* without APM the operation ends
check ==
  /\ todo # <<>> /\ Head(todo) \in {"check", "checkOnce"}
  /\ IF Head(todo) = "checkOnce" /\ isAPM THEN todo' = Later /\ UNCHANGED isAPM
     ELSE isAPM' = bios.apm /\ todo' = IF bios.apm THEN Later ELSE <<>>
  /\ UNCHANGED <<is_apm_connected, isPM, bios, operation, failed, power>>

\* what a flag decides
decide ==
  /\ todo # <<>>
  /\ CASE Head(todo) = "connectOnce" -> todo' = (IF is_apm_connected THEN <<>> ELSE <<"connect">>) \o Later
       [] Head(todo) = "enableOnce"  -> todo' = (IF isPM THEN <<>> ELSE chPM("enable")) \o Later
       [] Head(todo) = "reconnect"   -> todo' = (IF is_apm_connected THEN <<"disconnect">> ELSE <<>>) \o <<"connect">> \o Later
       [] OTHER -> FALSE
  /\ UNCHANGED <<isAPM, is_apm_connected, isPM, bios, operation, failed, power>>

\* 5301h: refused while connected
connect ==
  /\ todo # <<>> /\ Head(todo) = "connect" /\ todo' = Later
  /\ \/ ~bios.connected /\ bios' = [bios EXCEPT !.connected = TRUE] /\ is_apm_connected' = TRUE /\ UNCHANGED failed
     \/ failed' = TRUE /\ UNCHANGED <<bios, is_apm_connected>>
  /\ UNCHANGED <<isAPM, isPM, operation, power>>

\* 5304h: error 3 says that it was not connected
GivesUpNever(error) == FALSE     \* mutant: the error is not looked at
GivesUp(error) == error \notin {0, 3}
disconnect ==
  /\ todo # <<>> /\ Head(todo) = "disconnect" /\ todo' = Later
  /\ \E error \in IF bios.connected THEN {0, 1} ELSE {3} :
       /\ bios' = IF error = 0 THEN [bios EXCEPT !.connected = FALSE] ELSE bios
       /\ is_apm_connected' = IF GivesUp(error) THEN is_apm_connected ELSE FALSE
       /\ failed' = (failed \/ error = 1)
  /\ UNCHANGED <<isAPM, isPM, operation, power>>

\* 530Eh
chVersion ==
  /\ todo # <<>> /\ Head(todo) = "version" /\ todo' = Later /\ failed' \in {failed, TRUE}
  /\ UNCHANGED <<isAPM, is_apm_connected, isPM, bios, operation, power>>

\* 5308h: refused while not connected
SetPM ==
  /\ todo # <<>> /\ Head(todo) \in {"enable", "disable"} /\ todo' = Later
  /\ \/ bios.connected /\ isPM' = (Head(todo) = "enable") /\ bios' = [bios EXCEPT !.pm = isPM'] /\ UNCHANGED failed
     \/ failed' = TRUE /\ UNCHANGED <<isPM, bios>>
  /\ UNCHANGED <<isAPM, is_apm_connected, operation, power>>

\* 5307h: asked whatever became of the calls before; the flags stay as they are
SetState ==
  /\ todo # <<>> /\ Head(todo) \in {"standby", "suspend", "off"} /\ todo' = Later
  /\ power' = [state |-> Head(todo), ready |-> bios.connected /\ bios.pm] /\ failed' \in {failed, TRUE}
  /\ UNCHANGED <<isAPM, is_apm_connected, isPM, bios, operation>>

ApmNext ==
  \/ \E o \in DOMAIN Calls : Begin(o)
  \/ check \/ decide \/ connect \/ disconnect \/ chVersion \/ SetPM \/ SetState
ApmSpec == ApmInit /\ [][ApmNext]_apmvars

-----------------------------------------------------------------------------
(* Properties. *)

(* Whatever calls fail, the flags say how the BIOS is; an operation asks for the power state it
   names (restart for off), and for none where there is no APM; the BIOS is then connected, with
   power management enabled, unless a call of the operation failed: apm_setPowerState does not look
   at what connecting gave (apm_setPowerState, apm_suspend). *)
PowerAsAsked ==
  /\ is_apm_connected = bios.connected /\ isPM = bios.pm /\ (isAPM => bios.apm)
  /\ power.state # "none" => bios.apm /\ power.state = States[operation] /\ (power.ready \/ failed)
  /\ (todo = <<>> /\ operation \in DOMAIN States /\ bios.apm) => power.state = States[operation]
=============================================================================
