--------------------------- MODULE ReplayVerdict ----------------------------
(***************************************************************************)
(* What tools/forensic/replay_captured_request.py makes of a captured      *)
(* turn: which turn of the web server's log it takes for the captured one  *)
(* (_chain_correlation), and where it says that the delay was              *)
(* (build_result, _classify_case).                                         *)
(*                                                                         *)
(* Times are whole seconds, and the n-th line of the log is written at n.  *)
(* Every phase of a measured turn is short except the one that holds the   *)
(* delay and lasts at least as long as two others, so that the place to be *)
(* named is known.                                                         *)
(***************************************************************************)
EXTENDS Integers, Sequences, FiniteSets, SequencesExt, FiniteSetsExt

CONSTANTS
    MaxTurns,       \* bound on the turns in the log
    MaxChars,       \* bound on the length of a reply
    Delays,         \* how long the long phase lasts
    Shorts          \* how long the others last

ASSUME ReplayVerdictAssumption ==
    /\ {MaxTurns, MaxChars} \subseteq Nat /\ Delays \subseteq Nat /\ Shorts \subseteq Nat
    /\ \A delay \in Delays, short \in Shorts : 2 * short <= delay

VARIABLES
    chain,      \* the [chain] lines of web-server.log
    sample      \* the measured turn; NoSample before

verdictVars == <<chain, sample>>

NotMeasured == -1
NoSample == [long |-> "none"]

-----------------------------------------------------------------------------
(* The log.                                                                *)

Turns == {chain[i].turn : i \in DOMAIN chain}
OfKind(kind) == {i \in DOMAIN chain : chain[i].kind = kind}
LineOf(t, kind) == {i \in OfKind(kind) : chain[i].turn = t}

\* A line of a reply; the turns of a session follow each other, and a reply
\* that fails or is cut off leaves the lines it has.
Log ==
    /\ sample = NoSample
    /\ LET last == IF chain = <<>> THEN [kind |-> "done", turn |-> 0, chars |-> 0] ELSE Last(chain)
       IN  \/ /\ last.turn < MaxTurns
              /\ chain' = Append(chain, [kind |-> "start", turn |-> last.turn + 1, chars |-> 0])
           \/ /\ last.kind = "start"
              /\ chain' = Append(chain, [last EXCEPT !.kind = "token"])
           \/ /\ last.kind = "token"
              /\ \E n \in 1 .. MaxChars :
                   chain' = Append(chain, [last EXCEPT !.kind = "done", !.chars = n])
    /\ UNCHANGED sample

\* Variant of NextOf: the first line of the kind in the log.
FirstOf(kind, i) == Min(OfKind(kind) \cup {Len(chain) + 1})

\* The next line of the kind after line i; behind the log when there is none.
NextOf(kind, i) == Min({k \in OfKind(kind) : k > i} \cup {Len(chain) + 1})

\* The candidates: every start with the token and the end that follow it.
Candidates ==
    {i \in OfKind("start") : {NextOf("token", i), NextOf("done", i)} \subseteq DOMAIN chain}

Total(i) == NextOf("done", i) - i

\* _chain_correlation for a turn of so many characters, that took so long: the
\* first candidate of that length, else the closest total.
Chosen(chars, total) ==
    LET fitting == {i \in Candidates : chain[NextOf("done", i)].chars = chars}
        off(i) == IF Total(i) > total THEN Total(i) - total ELSE total - Total(i)
        closest == {i \in Candidates : \A k \in Candidates : off(i) <= off(k)}
    IN  IF fitting # {} THEN Min(fitting) ELSE Min(closest)

Complete(t) == LineOf(t, "done") # {}
LengthOf(t) == chain[CHOOSE i \in LineOf(t, "done") : TRUE].chars
StartOf(t) == CHOOSE i \in LineOf(t, "start") : TRUE
SecondsOf(t) == (CHOOSE i \in LineOf(t, "done") : TRUE) - StartOf(t)

-----------------------------------------------------------------------------
(* The place of a delay.                                                   *)

\* entry: from the call to the body of chat_stream; queue: from there until the
\* request is sent; headers, line and token: until each of them arrives.
Phases == {"entry", "queue", "headers", "line", "token"}

\* prompt: the seconds of prompt processing the server reports.  fresh, warm:
\* the first token of the two replays.  hit: the warm one needed no prompt
\* processing.
Samples ==
    [long : Phases, delay : Delays, short : Shorts, prompt : Shorts \cup Delays \cup {NotMeasured},
     fresh : Shorts \cup Delays \cup {NotMeasured}, warm : Shorts \cup Delays \cup {NotMeasured},
     hit : BOOLEAN]

\* The server's own seconds are spent before it says anything.
Possible(s) == s.prompt > s.short => s.long \in {"headers", "line"} /\ s.prompt <= s.delay

Measure ==
    /\ sample = NoSample /\ chain = <<>>
    /\ sample' \in {s \in Samples : Possible(s)}
    /\ UNCHANGED chain

Time(s, phase) == IF s.long = phase THEN s.delay ELSE s.short
FirstToken(s) == s.delay + 4 * s.short
SlowThreshold == 30

\* The marker that is taken for the sending of the request is the one set
\* before the body of chat_stream runs (build_result: pre_http).
PreHttp(s) == Time(s, "entry")

\* _classify_case, of what a turn and its replays measured.
ReproducesOn(s) ==
    s.fresh # NotMeasured /\ 2 * s.fresh >= FirstToken(s) /\ 4 * s.fresh >= 3 * SlowThreshold
WarmFast(s) == s.warm # NotMeasured /\ (10 * s.warm <= FirstToken(s) \/ s.warm <= 2)
BeforeHttp(s) == PreHttp(s) >= 5 /\ 4 * PreHttp(s) >= FirstToken(s)
InsideServer(s) ==
    LET before == Time(s, "headers") + Time(s, "line")
    IN  \/ 2 * before >= FirstToken(s) /\ before >= 5
        \/ s.prompt > 0 /\ 2 * s.prompt >= FirstToken(s)
Streaming(s) ==
    /\ Time(s, "token") >= 5 /\ 4 * Time(s, "token") >= FirstToken(s)
    /\ s.prompt = NotMeasured \/ 10 * s.prompt < 3 * FirstToken(s)

\* Variant of Case: the replays are looked at before the phases.
CaseByReplay(s) ==
    CASE FirstToken(s) < SlowThreshold -> "NOT_SLOW"
      [] FirstToken(s) >= SlowThreshold /\ ReproducesOn(s) -> "B"
      [] FirstToken(s) >= SlowThreshold /\ ~ReproducesOn(s) /\ s.fresh # NotMeasured -> "A"
      [] OTHER -> "INCONCLUSIVE"

Case(s) ==
    IF FirstToken(s) < SlowThreshold THEN "NOT_SLOW"
    ELSE IF BeforeHttp(s) THEN "E"
    ELSE IF Streaming(s) /\ ~InsideServer(s) THEN "G"
    ELSE IF InsideServer(s) /\ ReproducesOn(s) /\ WarmFast(s) /\ s.hit THEN "C"
    ELSE IF ReproducesOn(s) THEN "B"
    ELSE IF s.fresh # NotMeasured THEN "A"
    ELSE IF InsideServer(s) THEN "F"
    ELSE "INCONCLUSIVE"

-----------------------------------------------------------------------------
VerdictInit == chain = <<>> /\ sample = NoSample
VerdictNext == Log \/ Measure

VerdictSpec == VerdictInit /\ [][VerdictNext]_verdictVars

\* When every reply in the log came to its end, and none is as long as
\* another, the turn is matched with its own lines.
MatchedWithItself ==
    (\A t \in Turns : Complete(t)) =>
        \A t \in Turns : (\A u \in Turns \ {t} : LengthOf(u) # LengthOf(t)) =>
            Chosen(LengthOf(t), SecondsOf(t)) = StartOf(t)

\* A delay in the application before the body of chat_stream, in the server, or
\* between the first line and the first token is named as what it is, whatever
\* the replays show; and a delay in the server is put down to the request only
\* when a fresh server shows it too.
DelayLocated ==
    sample # NoSample /\ FirstToken(sample) >= SlowThreshold =>
        /\ sample.long = "entry" => Case(sample) = "E"
        /\ sample.long = "token" => Case(sample) = "G"
        /\ sample.long \in {"headers", "line"} => Case(sample) \in {"A", "B", "C", "F"}
        /\ Case(sample) \in {"B", "C"} => ReproducesOn(sample)

\* The verdict is about this turn and names the place of its delay.
VerdictIsTheTurns == MatchedWithItself /\ DelayLocated

=============================================================================
