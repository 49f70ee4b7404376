--------------------------- MODULE PromptContext ----------------------------
(***************************************************************************)
(* What the LLM is asked: the memories a search returned, rendered as the  *)
(* block of the system prompt, and the history, cut to the budget, in the  *)
(* web session (_memory_context, _cap_memory_context, _fit_history_budget  *)
(* of app/web_server.py) and in the CLI (app/voicemem_bridge.py and        *)
(* fit_prompt_budget of app/teacher_persona.py).                           *)
(*                                                                         *)
(* A text is its length.  A memory's line is its text and, for a memory    *)
(* that is no longer true, the suffix that says so.                        *)
(***************************************************************************)
EXTENDS Naturals, Sequences, FiniteSets, SequencesExt

CONSTANTS
    TopFacts, TopTraits,        \* 5 and 3: memories that are rendered
    BlockCap,                   \* 1200
    Budget,                     \* 14000, _PROMPT_CHAR_BUDGET
    Window,                     \* 8, _HISTORY_WINDOW
    Persona,                    \* the prompt without memories, and
    HeaderLength,               \* the heading of the block
    SuffixLength,               \* " [... | superseded]"
    LeastRoom, Margin, EndMark, \* 200, 20 and 16 in fit_prompt_budget
    TextLengths, UserLengths, ReplyLengths,
    MaxHits,                    \* bound on the memories of a kind a search returns
    MaxTalks                    \* bound on the turns

ASSUME PromptContextAssumption ==
    /\ {TopFacts, TopTraits, BlockCap, Budget, Window, Persona, HeaderLength, SuffixLength,
        LeastRoom, Margin, EndMark, MaxHits, MaxTalks} \subseteq Nat
    /\ TextLengths \cup UserLengths \cup ReplyLengths \subseteq Nat \ {0}
    /\ EndMark < Margin /\ Margin < LeastRoom

VARIABLES
    talk,   \* _history: who said it, and its length
    prompt, \* the last prompt
    talks   \* what the bound counts

promptVars == <<talk, prompt, talks>>

NoPrompt == [path |-> "none"]

PromptInit == talk = <<>> /\ prompt = NoPrompt /\ talks = 0

-----------------------------------------------------------------------------
(* The block of memories.                                                  *)

Hits == [text : TextLengths, stale : BOOLEAN]

AtMost(n, seq) == IF Len(seq) <= n THEN seq ELSE SubSeq(seq, 1, n)
Smaller(a, b) == IF a < b THEN a ELSE b
Less(a, b) == IF a < b THEN 0 ELSE a - b

\* The facts come first, then the traits.
Rendered(factHits, traits) == AtMost(TopFacts, factHits) \o AtMost(TopTraits, traits)

LineLength(hit) == hit.text + IF hit.stale THEN SuffixLength ELSE 0

\* The length of the lines joined, which is cut at BlockCap.
JoinedLength(lines) ==
    Less(FoldLeft(LAMBDA sum, hit : sum + LineLength(hit) + 1, 0, lines), 1)
BlockLength(lines) == Smaller(JoinedLength(lines), BlockCap)

\* What is left of the i-th line when a block of that length is left.
LeftOf(lines, block, i) ==
    LET before == IF i = 1 THEN 0 ELSE JoinedLength(SubSeq(lines, 1, i - 1)) + 1
    IN Smaller(Less(block, before), LineLength(lines[i]))

\* _cap_memory_context shortens what is longer than BlockCap: nothing is.
WebBlock(lines) == Smaller(BlockLength(lines), BlockCap)

CliBlock(lines) == BlockLength(lines)

SystemLength(block) == Persona + IF block = 0 THEN 0 ELSE HeaderLength + block

-----------------------------------------------------------------------------
(* The budget.                                                             *)

Total(entries) == FoldLeft(LAMBDA sum, entry : sum + entry.length, 0, entries)

\* Variant of Shed: the newest entries go first.
ShedNewest(entries, fixed) ==
    SubSeq(entries, 1, CHOOSE n \in 0 .. Len(entries) :
        /\ n = 0 \/ fixed + Total(SubSeq(entries, 1, n)) <= Budget
        /\ \A k \in n + 1 .. Len(entries) : fixed + Total(SubSeq(entries, 1, k)) > Budget)

\* The oldest entries go until the rest fits, or none is left.
Shed(entries, fixed) ==
    LET from == CHOOSE n \in 1 .. Len(entries) + 1 :
            /\ n = Len(entries) + 1 \/ fixed + Total(SubSeq(entries, n, Len(entries))) <= Budget
            /\ \A k \in 1 .. n - 1 : fixed + Total(SubSeq(entries, k, Len(entries))) > Budget
    IN SubSeq(entries, from, Len(entries))

Recent == SubSeq(talk, Less(Len(talk), Window) + 1, Len(talk))

\* The last step of fit_prompt_budget.
Truncated(system, user) ==
    LET room == IF Less(Budget, user) < LeastRoom THEN LeastRoom ELSE Budget - user
    IN Smaller(system, room - Margin) + EndMark

WebPrompt(lines, user) ==
    LET system == SystemLength(WebBlock(lines))
    IN [path |-> "web", lines |-> lines, block |-> WebBlock(lines), system |-> system,
        user |-> user, window |-> Recent, kept |-> Shed(Recent, system + user)]

\* VoicePipeline.handle_turn, and the reply hook of the bridge: no history.  When
\* the system prompt is truncated its head, and of the block its first lines, stay.
CliPrompt(lines, user) ==
    LET system == SystemLength(CliBlock(lines))
        fitted == IF system + user <= Budget THEN system ELSE Truncated(system, user)
        left == IF fitted = system THEN CliBlock(lines)
                ELSE Smaller(CliBlock(lines), Less(fitted - EndMark, Persona + HeaderLength))
    IN [path |-> "cli", lines |-> lines, block |-> left, system |-> fitted,
        user |-> user, window |-> <<>>, kept |-> <<>>]

-----------------------------------------------------------------------------
SomeHits == UNION {[1 .. n -> Hits] : n \in 0 .. MaxHits}

\* The turn of a web session, with what it leaves in the history: the pair, what
\* was heard of a reply that was cut, nothing of a reply nobody heard.
WebTalk ==
    /\ talks < MaxTalks
    /\ \E factHits, traits \in SomeHits, user \in UserLengths :
        /\ prompt' = WebPrompt(Rendered(factHits, traits), user)
        /\ \E reply \in ReplyLengths \cup {0} :
            talk' = talk \o <<[who |-> "user", length |-> user]>>
                \o IF reply = 0 THEN <<>> ELSE <<[who |-> "assistant", length |-> reply]>>
    /\ talks' = talks + 1

CliTalk ==
    /\ talk = <<>> /\ talks < MaxTalks
    /\ \E factHits, traits \in SomeHits, user \in UserLengths :
        prompt' = CliPrompt(Rendered(factHits, traits), user)
    /\ talks' = talks + 1
    /\ UNCHANGED talk

PromptNext == WebTalk \/ CliTalk

PromptSpec == PromptInit /\ [][PromptNext]_promptVars

-----------------------------------------------------------------------------
PromptLength == prompt.system + prompt.user + Total(prompt.kept)

\* A prompt is within the budget, unless what may not be cut is not; what is left
\* of the history is its end, and no more of it was given up than had to be.
PromptFits ==
    prompt # NoPrompt =>
        /\ prompt.path = "cli" =>
            PromptLength <= Budget \/ PromptLength <= prompt.user + LeastRoom
        /\ prompt.path = "web" => PromptLength <= Budget \/ prompt.kept = <<>>
        /\ LET lost == Len(prompt.window) - Len(prompt.kept)
           IN /\ prompt.kept = SubSeq(prompt.window, lost + 1, Len(prompt.window))
              /\ lost > 0 => PromptLength + prompt.window[lost].length > Budget

\* A memory that is no longer true is not shown without the mark that says so
\* (retrieval_contract.py: "superseded_by non-empty => the trait is HISTORICAL,
\* not current: consumers must not present it as current truth").
StaleIsMarked ==
    prompt # NoPrompt =>
        \A i \in DOMAIN prompt.lines :
            LET left == LeftOf(prompt.lines, prompt.block, i)
            IN prompt.lines[i].stale /\ left >= prompt.lines[i].text =>
                left = LineLength(prompt.lines[i])

=============================================================================
