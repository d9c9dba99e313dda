---------------------------- MODULE ContextBudget ----------------------------
(* How the context builder fits a conversation and the memories it found    *)
(* into the token budget of one prompt.  What must be in the prompt comes   *)
(* first - the current message, then the message it quotes, each cut short  *)
(* if it has to be - then the profiles, then the newest of the other        *)
(* messages, and last the remaining memories in the order of their ranking. *)
(* A size stands for a text, and a cost for the estimate of the lines that  *)
(* a piece adds to the prompt.  Where the code throws, the set of packs an  *)
(* operator yields is empty.                                                *)
EXTENDS Integers, Sequences, FiniteSets, SequencesExt

CONSTANTS MaxTokens,   \* the budget
          Overhead,    \* the system prompt and the identity fields
          LineCost,    \* the reference line of a message
          SpeakerCost, \* the line of a participant
          MarkerCost   \* the text that says a message was cut short

ASSUME BudgetAssumption ==
    MaxTokens \in Nat /\ Overhead \in Nat /\ LineCost \in Nat
      /\ SpeakerCost \in Nat /\ MarkerCost \in Nat

\* What a build asks of the budget: its messages from the oldest to the
\* newest, the position of the current and of the quoted one (0: none),
\* whether the current message is a reply, and whether a group is speaking;
\* "found" maps each memory that may be told to its record.
\*
\* A pack is what was taken so far: the size of each message kept, the
\* memories told, and those that no longer fitted.
Nothing == [kept |-> <<>>, told |-> {}, dropped |-> {}]

Sizes(ask) == [i \in DOMAIN ask.messages |-> ask.messages[i].text]

\* The name of its author goes with every message but the bot's.
Names(ask, kept) ==
    SumFunction([i \in DOMAIN kept |->
        IF ask.messages[i].bot THEN 0 ELSE ask.messages[i].name])

Participants(ask, kept) ==
    IF ask.group
    THEN {ask.messages[i].speaker : i \in {j \in DOMAIN kept : ~ask.messages[j].bot}}
    ELSE {}

ReplyLines(ask, kept) ==
    IF ~ask.reply \/ ask.current \notin DOMAIN kept THEN 0
    ELSE IF ask.quote \in DOMAIN kept THEN 2 ELSE 1

IsProfile(m) == m.kind = "summary" /\ m.scope \in {"user", "group"}

\* A profile is written out on its own and again among the facts.
MemoryCost(found, told) ==
    SumFunction([m \in told |->
        IF IsProfile(found[m]) THEN 2 * found[m].size ELSE found[m].size])

Cost(ask, found, pack) ==
    Overhead + SumFunction(pack.kept) + Names(ask, pack.kept)
      + LineCost * (Cardinality(DOMAIN pack.kept) + ReplyLines(ask, pack.kept))
      + SpeakerCost * Cardinality(Participants(ask, pack.kept))
      + MemoryCost(found, pack.told)

Fits(ask, found, pack) == Cost(ask, found, pack) <= MaxTokens

\* The one function, and the other where the one is not defined.
Overlaid(f, g) == [x \in DOMAIN f \cup DOMAIN g |-> IF x \in DOMAIN f THEN f[x] ELSE g[x]]

Keep(pack, i, n) == [pack EXCEPT !.kept = Overlaid([j \in {i} |-> n], @)]

\* The longest beginning of a text, with the marker, that still fits.
Longest(size, Fitting(_)) ==
    {n + MarkerCost : n \in {k \in 0 .. size :
        Fitting(k + MarkerCost)
          /\ \A l \in k + 1 .. size : ~Fitting(l + MarkerCost)}}

KeepCurrent(ask, found, pack) ==
    LET i == ask.current
        With(n) == Keep(pack, i, n)
    IN  IF i = 0 THEN {pack}
        ELSE IF Fits(ask, found, With(Sizes(ask)[i])) THEN {With(Sizes(ask)[i])}
        ELSE {With(n) : n \in Longest(Sizes(ask)[i], LAMBDA n : Fits(ask, found, With(n)))}

\* A quote that does not fit even as a bare marker takes room from the
\* current message, which is cut short once more.
KeepQuote(ask, found, pack) ==
    LET i == ask.quote
        c == ask.current
        With(n) == Keep(pack, i, n)
        Cut == Longest(Sizes(ask)[i], LAMBDA n : Fits(ask, found, With(n)))
        Both(n) == Keep(With(MarkerCost), c, n)
    IN  IF i \in {0, c} THEN {pack}
        ELSE IF Fits(ask, found, With(Sizes(ask)[i])) THEN {With(Sizes(ask)[i])}
        ELSE IF Cut # {} THEN {With(n) : n \in Cut}
        ELSE IF c = 0 THEN {}
        ELSE {Both(n) : n \in Longest(pack.kept[c], LAMBDA n : Fits(ask, found, Both(n)))}

\* The surest summary of the user, then that of the group.
Best(found, scope) ==
    LET summaries == {m \in DOMAIN found : found[m].scope = scope /\ found[m].kind = "summary"}
    IN  IF summaries = {} THEN <<>>
        ELSE <<CHOOSE m \in summaries : \A n \in summaries : found[m].sure >= found[n].sure>>
PriorityProfiles(found) == Best(found, "user") \o Best(found, "group")

TellOrDrop(ask, found, pack, m) ==
    LET with == [pack EXCEPT !.told = @ \cup {m}]
    IN  IF Fits(ask, found, with) THEN with ELSE [pack EXCEPT !.dropped = @ \cup {m}]

\* One after the other, in their order.
TellAll(ask, found, pack, ms) ==
    LET after[n \in 0 .. Len(ms)] ==
            IF n = 0 THEN pack ELSE TellOrDrop(ask, found, after[n - 1], ms[n])
    IN  after[Len(ms)]

\* The messages that need not be in the prompt, and a pack with some of them.
Optional(ask) == DOMAIN ask.messages \ {ask.current, ask.quote}
KeepAll(ask, pack, is) == [pack EXCEPT !.kept = Overlaid(@, [i \in is |-> Sizes(ask)[i]])]
Since(ask, i) == {j \in Optional(ask) : j >= i}

\* Mutant: a message that does not fit is skipped, and older ones still tried.
KeepRecentSkipping(ask, found, pack) ==
    KeepAll(ask, pack, {i \in Optional(ask) : Fits(ask, found, KeepAll(ask, pack, {i}))})

\* From the newest message back to the first that does not fit: a message is
\* kept if each newer one was, and it fits with all of them.
KeepRecent(ask, found, pack) ==
    KeepAll(ask, pack, {i \in Optional(ask) :
        \A j \in Since(ask, i) : Fits(ask, found, KeepAll(ask, pack, Since(ask, j)))})

\* "ranked" is the order of the memories that are no priority profiles.
Packs(ask, found, ranked) ==
    {TellAll(ask, found,
             KeepRecent(ask, found, TellAll(ask, found, required, PriorityProfiles(found))),
             ranked)
       : required \in UNION {KeepQuote(ask, found, p) : p \in
             IF Fits(ask, found, Nothing) THEN KeepCurrent(ask, found, Nothing) ELSE {}}}
=============================================================================
