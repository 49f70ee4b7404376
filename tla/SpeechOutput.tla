---------------------------- MODULE SpeechOutput ----------------------------
(***************************************************************************)
(* What the user is promised of a spoken reply: its chunks are spoken in   *)
(* the order of the text, each at most once, none passed over but those    *)
(* the synthesis has no audio for.  While the text grows, its chunks       *)
(* become due; those that are due when it ends are spoken, unless the      *)
(* reply is cut off, and the others are not.                               *)
(***************************************************************************)
EXTENDS Naturals, Sequences

VARIABLES
    emitted,    \* number of chunks of the reply so far
    ended,      \* its text has ended
    due,        \* number of chunks that are going to be spoken
    silent,     \* chunks without audio
    spoken,     \* chunks sent to the browser, in order
    over        \* "no", or how the reply ended: "complete" or "cut"

vars == <<emitted, ended, due, silent, spoken, over>>

Dealt == silent \cup {spoken[i] : i \in 1 .. Len(spoken)}

Init ==
    /\ emitted = 0 /\ ended = FALSE /\ due = 0
    /\ silent = {}
    /\ spoken = <<>>
    /\ over = "no"

Emit ==
    /\ over = "no" /\ ~ended
    /\ emitted' = emitted + 1
    /\ UNCHANGED <<ended, due, silent, spoken, over>>

\* All chunks so far are going to be spoken.
FallDue ==
    /\ over = "no" /\ ~ended
    /\ due' = emitted
    /\ UNCHANGED <<emitted, ended, silent, spoken, over>>

End ==
    /\ over = "no" /\ ~ended
    /\ ended' = TRUE
    /\ UNCHANGED <<emitted, due, silent, spoken, over>>

FallSilent(n) ==
    /\ over = "no"
    /\ n \notin Dealt
    /\ silent' = silent \cup {n}
    /\ UNCHANGED <<emitted, ended, due, spoken, over>>

Speak(n) ==
    /\ over = "no"
    /\ n \notin Dealt
    /\ 1 .. n - 1 \subseteq Dealt
    /\ spoken' = Append(spoken, n)
    /\ UNCHANGED <<emitted, ended, due, silent, over>>

Complete ==
    /\ over = "no" /\ ended
    /\ 1 .. due \subseteq Dealt
    /\ over' = "complete"
    /\ UNCHANGED <<emitted, ended, due, silent, spoken>>

CutOff ==
    /\ over = "no"
    /\ over' = "cut"
    /\ UNCHANGED <<emitted, ended, due, silent, spoken>>

Next ==
    \/ Emit \/ FallDue \/ End
    \/ \E n \in 1 .. emitted : FallSilent(n)
    \/ \E n \in 1 .. due : Speak(n)
    \/ Complete
    \/ CutOff

Spec == Init /\ [][Next]_vars

=============================================================================
