----------------------------- MODULE DevicePower -----------------------------
(***************************************************************************)
(* "ott PLAYER shutdown" of cli/device_power.py: a graceful power off of   *)
(* the Android device bound to a player, through the local ADB server.     *)
(*                                                                         *)
(* The binding names a serial, which may be an address that another device *)
(* takes over, and an identity.  Every command after the identity has been *)
(* read goes to the connection it was read on.  Some firmware asks in a    *)
(* dialog of the system; the command confirms it, by a touch that either   *)
(* activates the button or only focuses it, and then by a key.  The viewer *)
(* opens and answers dialogs meanwhile, and any step may exceed the        *)
(* deadline.                                                               *)
(***************************************************************************)
EXTENDS Naturals, FiniteSets

CONSTANTS
    MaxConnections, \* connections the serial reaches one after another
    MaxDialogs      \* dialogs shown

PowerAssumption == MaxConnections \in Nat /\ MaxDialogs \in Nat

VARIABLES
    connection,     \* what the serial reaches: [device, transport]
    dialog,         \* the focused window: the number of a dialog, or 0
    dialogs,        \* dialogs shown so far
    focused,        \* whether its positive button has the focus
    touched,        \* a touch that will activate the button
    firmware,       \* [asks: svc opens a dialog, touch: a touch activates]
    service,        \* the svc command: "none", "running", "returned", "seen" or "denied"
    pc,
    transport,      \* the connection it uses
    snapshot,       \* the window it saw first, or 0
    button,         \* the dialog it recognised: [window, focused], or None
    pressed,        \* the window it has touched, or 0
    sent,           \* history: what reached a device: [what, device]
    requested,      \* history: how often svc was sent
    outcome

device == <<connection, dialog, dialogs, focused, touched, firmware, service>>
command == <<pc, transport, snapshot, button, pressed, outcome>>
history == <<sent, requested>>
vars == <<device, command, history>>

None == [window |-> 0, focused |-> FALSE]

Init ==
    /\ connection \in [device : {"bound", "other"}, transport : {1}]
    /\ dialog \in {0, 1} /\ dialogs = dialog /\ focused = FALSE /\ touched = FALSE
    /\ firmware \in [asks : BOOLEAN, touch : BOOLEAN]
    /\ service = "none"
    /\ pc = "list" /\ transport = 0 /\ snapshot = 0 /\ button = None /\ pressed = 0
    /\ sent = {} /\ requested = 0 /\ outcome = "none"

----------------------------------------------------------------------------
(* The command. *)

\* A command for a connection that is gone fails.
Reaches == connection.transport = transport

Done(what) == pc' = "done" /\ outcome' = what /\ UNCHANGED <<transport, snapshot, button, pressed>>
Sends(what) == sent' = sent \cup {[what |-> what, device |-> connection.device]}

List ==
    /\ pc = "list" /\ pc' = "verify"
    /\ transport' = connection.transport
    /\ UNCHANGED <<device, history, snapshot, button, pressed, outcome>>

Verify ==
    /\ pc = "verify" /\ Reaches /\ connection.device = "bound" /\ pc' = "window"
    /\ UNCHANGED <<device, history, transport, snapshot, button, pressed, outcome>>

\* The dialog is recognised in a dump between two equal looks at the window.
Look ==
    /\ pc \in {"window", "wait", "pressed", "last"} /\ Reaches
    /\ IF dialog = 0 THEN pc' = "absent" /\ snapshot' = 0
                     ELSE pc' = "dump" /\ snapshot' = dialog
    /\ UNCHANGED <<device, history, transport, button, pressed, outcome>>

Dump ==
    /\ pc = "dump" /\ Reaches
    /\ IF dialog = 0 THEN pc' = "absent" /\ button' = None
                     ELSE pc' = "again" /\ button' = [window |-> dialog, focused |-> focused]
    /\ UNCHANGED <<device, history, transport, snapshot, pressed, outcome>>

LookAgain ==
    /\ pc = "again" /\ Reaches
    /\ pc' = IF dialog = snapshot THEN "present" ELSE "absent"
    /\ UNCHANGED <<device, history, transport, snapshot, button, pressed, outcome>>

\* Without a dialog: a touch has been taken, the request is due, the wait goes
\* on, or the command is through.
Absent ==
    /\ pc = "absent"
    /\ IF pressed # 0 \/ service = "seen" THEN Done("accepted")
       ELSE /\ pc' = IF service = "none" THEN "request" ELSE "wait"
            /\ UNCHANGED <<transport, snapshot, button, pressed, outcome>>
    /\ UNCHANGED <<device, history>>

Activate ==
    /\ dialog' = 0 /\ focused' = FALSE /\ touched' = FALSE
    /\ UNCHANGED <<connection, dialogs, firmware, service>>

Touch ==
    /\ pc = "present" /\ pressed = 0 /\ ~button.focused /\ Reaches
    /\ Sends("touch") /\ UNCHANGED requested
    /\ IF dialog = 0 THEN UNCHANGED <<focused, touched>>
       ELSE /\ touched' = firmware.touch
            /\ focused' = ~firmware.touch
    /\ pc' = "pressed" /\ pressed' = button.window
    /\ UNCHANGED <<connection, dialog, dialogs, firmware, service, transport, snapshot, button, outcome>>

\* The key follows only a fresh look at the same dialog with the focus.
Ready == button.focused /\ pressed \in {0, button.window}
Key ==
    /\ pc = "present" /\ Ready /\ Reaches
    /\ Sends("key") /\ UNCHANGED requested
    /\ IF dialog # 0 /\ focused THEN Activate ELSE UNCHANGED device
    /\ Done("accepted")

Unfocused ==
    /\ pc = "present" /\ pressed # 0 /\ ~Ready
    /\ Done("uncertain") /\ UNCHANGED <<device, history>>

\* A variant that asks the serial instead of the connection.
RequestBySerial ==
    /\ pc = "request"
    /\ Sends("svc") /\ requested' = requested + 1
    /\ service' = "running" /\ pc' = "wait"
    /\ UNCHANGED <<connection, dialog, dialogs, focused, touched, firmware, transport,
                   snapshot, button, pressed, outcome>>

\* The one request; a dialog is answered while it runs.
Request ==
    /\ pc = "request" /\ Reaches
    /\ Sends("svc") /\ requested' = requested + 1
    /\ service' = "running" /\ pc' = "wait"
    /\ UNCHANGED <<connection, dialog, dialogs, focused, touched, firmware, transport,
                   snapshot, button, pressed, outcome>>

Returned ==
    /\ pc = "wait" /\ service = "returned" /\ service' = "seen" /\ pc' = "last"
    /\ UNCHANGED <<connection, dialog, dialogs, focused, touched, firmware, history, transport,
                   snapshot, button, pressed, outcome>>

\* A refusal for lack of permission is the one definite answer.
Denied ==
    /\ pc = "wait" /\ service = "running" /\ ~firmware.asks
    /\ service' = "denied"
    /\ Done("error") /\ UNCHANGED <<connection, dialog, dialogs, focused, touched, firmware, history>>

\* An error or the deadline.  Before anything is sent it is one; once svc runs,
\* and while a touch is on its way, the outcome is uncertain.  A touch that has
\* been seen to give the focus alone has changed nothing.
InDoubt == service # "none" \/ (pressed # 0 /\ ~(pc = "present" /\ Ready))
Fail ==
    /\ pc # "done"
    /\ Done(IF InDoubt THEN "uncertain" ELSE "error") /\ UNCHANGED <<device, history>>
\* Or the process of an input may have been stopped half way.
FailSending ==
    /\ pc = "present" /\ (Ready \/ pressed = 0) /\ Reaches
    /\ Sends(IF button.focused THEN "key" ELSE "touch") /\ UNCHANGED requested
    /\ IF dialog # 0 THEN Activate \/ UNCHANGED device ELSE UNCHANGED device
    /\ Done("uncertain")

----------------------------------------------------------------------------
(* The device, its viewer and the connection. *)

Show ==
    /\ dialog = 0 /\ dialogs < MaxDialogs
    /\ dialogs' = dialogs + 1 /\ dialog' = dialogs + 1 /\ focused' \in BOOLEAN /\ touched' = FALSE
    /\ UNCHANGED <<connection, firmware, service, command, history>>

\* The viewer answers the dialog, or the touch takes effect.
Answer == dialog # 0 /\ Activate /\ UNCHANGED <<command, history>>

ServiceReturns ==
    /\ service = "running" /\ service' = "returned"
    /\ UNCHANGED <<connection, dialog, dialogs, focused, touched, firmware, command, history>>

\* The device goes away, and the serial reaches it again or another one.
Reconnect ==
    /\ connection.transport < MaxConnections
    /\ \E d \in {"bound", "other"} :
         connection' = [device |-> d, transport |-> connection.transport + 1]
    /\ UNCHANGED <<dialog, dialogs, focused, touched, firmware, service, command, history>>

----------------------------------------------------------------------------
Next ==
    \/ List \/ Verify \/ Look \/ Dump \/ LookAgain \/ Absent \/ Touch \/ Key \/ Unfocused
    \/ Request \/ Returned \/ Denied \/ Fail \/ FailSending
    \/ Show \/ Answer \/ ServiceReturns \/ Reconnect

Spec == Init /\ [][Next]_vars

----------------------------------------------------------------------------
\* Nothing ever reaches another device than the bound one, the request is sent
\* at most once, and what the command reports agrees with what it sent: an
\* error means that it neither asked for the power off nor confirmed it.
SafeShutdown ==
    /\ \A s \in sent : s.device = "bound"
    /\ requested <= 1
    /\ outcome = "accepted" => sent # {}
    /\ outcome = "error" /\ service # "denied" => ~touched /\ \A s \in sent : s.what = "touch"
=============================================================================
