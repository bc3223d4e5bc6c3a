------------------------------ MODULE Campaign ------------------------------
(***************************************************************************)
(* What the attack orchestrator promises (spec 4.4 and 5), abstracted from *)
(* the stages' internals: one campaign per invocation, phases that are     *)
(* never re-entered, acquisition (the receive stream and the sample sink)  *)
(* only while scanning and wholly over before transmission, and the radio *)
(* held from its initialisation until the one terminal step, which finds  *)
(* the streams and the sink closed and releases the radio.                *)
(***************************************************************************)

VARIABLES
    phase,      \* idle, scanning, transmitting or ended
    radio,      \* the RF device is held
    rx,         \* the receive stream is running
    sink        \* the sample sink is open

cvars == <<phase, radio, rx, sink>>

Phase == {"idle", "scanning", "transmitting", "ended"}

Init ==
    /\ phase = "idle"
    /\ ~radio /\ ~rx /\ ~sink

\* The RF device is opened and configured before any scanning.
Acquire ==
    /\ phase = "idle" /\ ~radio
    /\ radio' = TRUE
    /\ UNCHANGED <<phase, rx, sink>>

\* With the radio held, acquisition begins.
StartScan ==
    /\ phase = "idle" /\ radio
    /\ phase' = "scanning"
    /\ UNCHANGED <<radio, rx, sink>>

\* The sample sink is opened before the receive stream starts.
OpenSink ==
    /\ phase = "scanning" /\ ~rx /\ ~sink
    /\ sink' = TRUE
    /\ UNCHANGED <<phase, radio, rx>>

\* The receive stream starts.
RxOn ==
    /\ phase = "scanning" /\ ~rx
    /\ rx' = TRUE
    /\ UNCHANGED <<phase, radio, sink>>

\* Acquisition ends (found, timed out, cancelled or failed): the stream is
\* stopped and the sink closed together.
StopAcquisition ==
    /\ phase = "scanning"
    /\ rx' = FALSE /\ sink' = FALSE
    /\ UNCHANGED <<phase, radio>>

\* Transmission starts only once acquisition is wholly over.
StartTx ==
    /\ phase = "scanning" /\ ~rx /\ ~sink
    /\ phase' = "transmitting"
    /\ UNCHANGED <<radio, rx, sink>>

\* The single terminal step, from any phase: the streams and the sink are
\* already closed, and the radio is released.
End ==
    /\ phase # "ended" /\ ~rx /\ ~sink
    /\ phase' = "ended"
    /\ radio' = FALSE
    /\ UNCHANGED <<rx, sink>>

Next ==
    \/ Acquire \/ StartScan \/ OpenSink \/ RxOn \/ StopAcquisition
    \/ StartTx \/ End

Spec == Init /\ [][Next]_cvars
=============================================================================
