------------------------------ MODULE DebateFile ------------------------------
(***************************************************************************)
(* The record of a debate, DEBATE-<id>.md: a section by each critic and a  *)
(* reply in every round.  Before an agent is called, run_agent condenses a *)
(* file that is over the budget of its role: all but the last rounds       *)
(* become one-line markers, and what the file was goes to the archive      *)
(* DEBATE-<id>-full.md.  The nodes read from the condensed file whether    *)
(* the debate is stuck or thrashing, and its agents get a ledger of it.    *)
(*                                                                         *)
(* The step of a node is made of file operations: a crash may fall between *)
(* two of them, and the node is then run again from its checkpoint.  This  *)
(* is one debate: one that is begun anew begins without a file.            *)
(*                                                                         *)
(* A file is the set of the places, in what was said, of the sections that *)
(* are in it: sections are appended to it or leave it, and are never       *)
(* changed or moved.                                                       *)
(***************************************************************************)
EXTENDS Integers, FiniteSets, Sequences

CONSTANTS
  Critic,        \* who criticises: "Reviewer", and "UX" when the designer takes part
  Claim,         \* the ids of the reviewer's blockers
  Concern,       \* and of the designer's
  KeepRecent,    \* CONDENSER_KEEP_RECENT: rounds kept verbatim
  StuckRounds,   \* debate_stuck_rounds and debate_thrash_rounds of the yaml file
  ThrashRounds,
  MaxRounds,     \* bound: rounds, with those a human adds
  MaxSections,   \* bound: sections written
  MaxCrashes     \* bound: crashes

ASSUME DebateFileAssumption ==
  /\ Critic \subseteq {"Reviewer", "UX"} /\ "Reviewer" \in Critic
  /\ IsFiniteSet(Claim) /\ IsFiniteSet(Concern) /\ Concern \subseteq Nat
  /\ KeepRecent \in Nat /\ StuckRounds \in Nat /\ ThrashRounds \in Nat
  /\ MaxRounds \in Nat \ {0} /\ MaxSections \in Nat /\ MaxCrashes \in Nat

VARIABLES
  said,      \* history: the sections written, in their order
  live,      \* the file DEBATE-<id>.md, without its markers
  full,      \* the sections in DEBATE-<id>-full.md
  round,     \* debate_round, and the next to speak
  turn,
  pc,        \* where the step of the node is
  conv,      \* the debate as the node read it (Conversation.debate_history)
  torn,      \* whether a crash has cut the file short
  crashes

vars == <<said, live, full, round, turn, pc, conv, torn, crashes>>

Names(c) == IF c = "UX" THEN Concern ELSE Claim
Item == {x \in Critic \X (Claim \cup Concern) : x[2] \in Names(x[1])}

\* A section: the verdict of a critic (APPROVE and APPROVE_WITH_CHANGES ship) and the
\* blockers it names, or the items a reply calls RESOLVED.  The designer goes over its
\* own items by their numbers, RESOLVED <n> and STILL OPEN <n>, before it names others
\* or after.
Section ==
  [round : 1..MaxRounds, by : Critic \cup {"Reply"},
   ships : BOOLEAN, raises : SUBSET (Claim \cup Concern), resolves : SUBSET Item,
   closed : SUBSET Nat, still : SUBSET Nat, after : BOOLEAN]

-----------------------------------------------------------------------------
(* The condenser: what it makes of a file.                                 *)

\* The file as it would be if nothing had been condensed.
All == 1..Len(said)

RoundsOf(f) == {said[i].round : i \in f}

\* The last k rounds.  The code counts them in the order they were begun in, which is
\* that of their numbers.
Last(rounds, k) == {r \in rounds : Cardinality({q \in rounds : q > r}) < k}
LastRounds(f, k) == Last(RoundsOf(f), k)

\* Slip: the oldest rounds are the ones kept.
CondenseRecent(f) ==
  {i \in f : Cardinality({q \in RoundsOf(f) : q < said[i].round}) < KeepRecent}

\* condense.
Condense(f) == LET kept == LastRounds(f, KeepRecent) IN {i \in f : said[i].round \in kept}

\* The last section of a critic in a round counts.
Sections(f, r, c) == {i \in f : said[i].round = r /\ said[i].by = c}
Speaks(f, r, c) == Sections(f, r, c) # {}
LastSection(f, r, c) ==
  said[CHOOSE i \in Sections(f, r, c) : \A j \in Sections(f, r, c) : j <= i]

\* The blockers of a round, those of a critic that ships left out.
RoundClaims(f, r) ==
  {x \in Item : Speaks(f, r, x[1]) /\ ~LastSection(f, r, x[1]).ships /\ x[2] \in LastSection(f, r, x[1]).raises}

\* config.py: both windows within the rounds that are kept.
AtLeastOne(n) == IF n < 1 THEN 1 ELSE n
Unclamped == AtLeastOne(StuckRounds)
StuckWindow == IF KeepRecent < AtLeastOne(StuckRounds) THEN KeepRecent ELSE AtLeastOne(StuckRounds)
UnclampedTrend == AtLeastOne(ThrashRounds)
ThrashWindow ==
  IF KeepRecent < AtLeastOne(ThrashRounds) THEN AtLeastOne(KeepRecent) ELSE AtLeastOne(ThrashRounds)

\* stuck_claims: the blockers of each of the last k rounds.
StuckClaims(f, k) ==
  IF k < 1 \/ Cardinality(RoundsOf(f)) < k THEN {}
  ELSE {x \in Item : \A r \in LastRounds(f, k) : x \in RoundClaims(f, r)}

\* thrashing_report: an active round is one a critic has not shipped.
Active(f) == {r \in RoundsOf(f) : \E c \in Critic : Speaks(f, r, c) /\ ~LastSection(f, r, c).ships}
Blockers(f, r) ==
  LET Named(c) == IF Speaks(f, r, c) THEN Cardinality(LastSection(f, r, c).raises) ELSE 0
  IN Named("Reviewer") + (IF "UX" \in Critic THEN Named("UX") ELSE 0)

Mode(f) ==
  LET window == Last(Active(f), ThrashWindow)
      Follows(q, r) == r < q /\ ~\E x \in window : r < x /\ x < q
      last == CHOOSE r \in window : \A q \in window : q <= r
      new == UNION {RoundClaims(f, last) \ RoundClaims(f, r) : r \in {q \in window : Follows(last, q)}}
      decreasing == \A r, q \in window : Follows(q, r) => Blockers(f, q) < Blockers(f, r)
  IN IF Cardinality(window) < 2 THEN "unknown"
     ELSE IF StuckClaims(f, ThrashWindow) # {} THEN "stuck"
     ELSE IF Blockers(f, last) = 0 \/ decreasing THEN "converging"
     ELSE IF new # {} THEN "thrashing" ELSE "unknown"

\* debate_ledger: an item is listed when it was raised.
Raised(f, x) == {i \in f : said[i].by = x[1] /\ x[2] \in said[i].raises}
Listed(f) == {x \in Item : Raised(f, x) # {}}

\* The designer's items of earlier rounds are numbered as they come in the file; a
\* section names its blockers in the order of their ids.
Numbered(f, r) == {x \in Listed(f) : x[1] = "UX" /\ \E i \in Raised(f, x) : said[i].round < r}
First(f, x) == CHOOSE i \in Raised(f, x) : \A j \in Raised(f, x) : i <= j
ByNumber(f, i, numbers) ==
  LET items == Numbered(f, said[i].round)
      Upto(x) == {y \in items : First(f, y) < First(f, x) \/ (First(f, y) = First(f, x) /\ y[2] <= x[2])}
  IN {x \in Item : \E n \in numbers : x \in items /\ Cardinality(Upto(x)) = n}

\* The signals in their order: a section has its numbers, its blockers, and its numbers.
AtNumbers(i) == IF said[i].after THEN 3 * i + 2 ELSE 3 * i
Openings(f, x) ==
  {3 * i + 1 : i \in Raised(f, x)}
  \cup {AtNumbers(i) : i \in {j \in f : x \in ByNumber(f, j, said[j].still)}}
Closings(f, x) ==
  {3 * i + 1 : i \in {j \in f : x \in said[j].resolves}}
  \cup {AtNumbers(i) : i \in {j \in f : x \in ByNumber(f, j, said[j].closed)}}

\* The last signal decides.
Open(f) == {x \in Listed(f) : \A t \in Closings(f, x) : \E u \in Openings(f, x) : u > t}

-----------------------------------------------------------------------------
TypeOK ==
  /\ said \in Seq(Section)
  /\ live \subseteq All /\ full \subseteq All /\ conv \subseteq All
  /\ round \in 1..MaxRounds
  /\ turn \in Critic \cup {"Reply"}
  /\ pc \in {"begin", "condense", "rewrite", "cut", "call", "end"}
  /\ torn \in BOOLEAN /\ crashes \in 0..MaxCrashes
  /\ pc \in {"rewrite", "cut"} => Condense(conv) # conv

Init ==
  /\ said = <<>> /\ live = {} /\ full = {} /\ conv = {}
  /\ round = 1 /\ turn = "Reviewer" /\ pc = "begin"
  /\ torn = FALSE /\ crashes = 0

At(here, to) == pc = here /\ pc' = to
Checkpoint == <<round, turn>>

\* from_state.  A file that was cut short is read like any other.
Read ==
  /\ At("begin", "condense") /\ conv' = live
  /\ UNCHANGED <<live, full, Checkpoint, said, torn, crashes>>

\* run_agent: under the budget, or nothing to collapse.
NoCondense ==
  /\ At("condense", "call")
  /\ UNCHANGED <<live, full, Checkpoint, conv, said, torn, crashes>>

\* Slip: the file is rewritten before it is archived.
ArchiveLate ==
  /\ Condense(conv) # conv /\ At("condense", "rewrite")
  /\ live' = Condense(conv) /\ full' = full \cup live'
  /\ UNCHANGED <<Checkpoint, conv, said, torn, crashes>>

\* Over the budget, the file goes to the archive as it is now ...
Archive ==
  /\ Condense(conv) # conv /\ At("condense", "rewrite")
  /\ full' = full \cup live
  /\ UNCHANGED <<live, Checkpoint, conv, said, torn, crashes>>

\* ... and is written anew from what the node has read: opened for writing, then written.
Truncate ==
  /\ At("rewrite", "cut") /\ live' = {}
  /\ UNCHANGED <<full, Checkpoint, conv, said, torn, crashes>>

Rewrite ==
  /\ At("cut", "call") /\ live' = Condense(conv)
  /\ UNCHANGED <<full, Checkpoint, conv, said, torn, crashes>>

\* The designer gave no verdict and is asked again, with the debate as it was read.
AskAgain ==
  /\ turn = "UX" /\ At("call", "condense")
  /\ UNCHANGED <<live, full, Checkpoint, conv, said, torn, crashes>>

Speak(sec) ==
  /\ At("call", "end") /\ Len(said) < MaxSections
  /\ said' = Append(said, sec) /\ live' = live \cup {Len(said')}
  /\ conv' = {} /\ UNCHANGED <<full, Checkpoint, torn, crashes>>

\* debate_tech, debate_ux: the critique is appended, also one that rejects and names no
\* blocker.  The designer counts the items of the ledger it was given, and says of one
\* either that it is resolved or that it is open.
Criticise ==
  /\ turn \in Critic
  /\ LET numbers == 1..Cardinality(Numbered(conv, round)) IN
     \E ships, after \in BOOLEAN, raises \in SUBSET Names(turn), called \in SUBSET numbers :
     \E closed \in SUBSET called :
       /\ turn = "UX" \/ called = {}
       /\ after => raises # {} /\ called # {}
       /\ Speak([round |-> round, by |-> turn, ships |-> ships, raises |-> raises, resolves |-> {},
                 closed |-> closed, still |-> called \ closed, after |-> after])

\* What the critic says cannot be trusted, and nothing is appended; the human resumes.
Silent ==
  /\ turn \in Critic /\ At("call", "end") /\ conv' = {}
  /\ UNCHANGED <<live, full, Checkpoint, said, torn, crashes>>

\* debate_reply: the items it calls RESOLVED are items of the ledger it was given.
Reply ==
  /\ turn = "Reply"
  /\ \E resolves \in SUBSET Open(conv) :
       Speak([round |-> round, by |-> "Reply", ships |-> FALSE, raises |-> {},
              resolves |-> resolves, closed |-> {}, still |-> {}, after |-> FALSE])

\* The checkpoint of the node: the next node's turn.  A round follows the reply, or the
\* answer of a human who lets the critics go on without one.
Commit ==
  /\ At("end", "begin")
  /\ \/ turn = "Reviewer" /\ turn' = (IF "UX" \in Critic THEN "UX" ELSE "Reply") /\ UNCHANGED round
     \/ turn = "UX" /\ turn' = "Reply" /\ UNCHANGED round
     \/ round < MaxRounds /\ round' = round + 1 /\ turn' = "Reviewer"
  /\ UNCHANGED <<live, full, conv, said, torn, crashes>>

\* Before the checkpoint: the node is run again.  While the file is written, some of it.
Crash ==
  /\ crashes < MaxCrashes /\ crashes' = crashes + 1
  /\ pc # "begin" /\ pc' = "begin" /\ conv' = {}
  /\ torn' = (torn \/ pc = "cut")
  /\ \/ UNCHANGED live
     \/ pc = "cut" /\ \E n \in 0..Len(said) : live' = {i \in Condense(conv) : i <= n}
  /\ UNCHANGED <<full, Checkpoint, said>>

Next ==
  \/ Read \/ NoCondense \/ Archive \/ Truncate \/ Rewrite \/ AskAgain
  \/ Criticise \/ Silent \/ Reply \/ Commit \/ Crash

Spec == Init /\ [][Next]_vars

-----------------------------------------------------------------------------
(* Properties.                                                             *)

\* The file is whole and something has left it: before that it is the whole debate, and
\* there is nothing to compare.
Condensed == ~torn /\ pc # "cut" /\ live # All

\* However often the file was condensed and wherever a node crashed, what was said is in
\* the file or in the archive, word for word.
NothingSaidIsLost == All \subseteq live \cup full

\* The last rounds are in the file as they were said, also those of a node that was run
\* again after a crash, and of a designer who was asked again.
RecentVerbatim ==
  Condensed => LET kept == LastRounds(All, KeepRecent) IN \A i \in All : said[i].round \in kept => i \in live

\* The debate is found stuck exactly when it would be in the file that nobody condensed.
StuckIsStuck == Condensed => StuckClaims(live, StuckWindow) = StuckClaims(All, StuckWindow)

\* What the ledger still lists it lists as it is: no open blocker is called resolved.
\* The numbers of the designer count the items that are left in the file, and what one of
\* them means in the file or in the whole debate, and not in both, is left out.
Misread(x) ==
  \E i \in live : \E numbers \in {said[i].closed, said[i].still} :
    ~(x \in ByNumber(live, i, numbers) <=> x \in ByNumber(All, i, numbers))

LedgerAgrees ==
  Condensed => \A x \in Listed(live) : (x \in Open(live) <=> x \in Open(All)) \/ Misread(x)

\* While no round of the window has shipped, the trend that is reported is the one of
\* the whole debate.
TrendIsSeen ==
  Condensed /\ LastRounds(All, ThrashWindow) \subseteq Active(All) => Mode(live) = Mode(All)
=============================================================================
