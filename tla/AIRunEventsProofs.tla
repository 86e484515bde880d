-------------------------- MODULE AIRunEventsProofs --------------------------
(***************************************************************************)
(* What the chat panel shows of a run, proved for every length of a run,   *)
(* every page size and every number of reopenings.                         *)
(*                                                                         *)
(* The projection is a composition of functions of one record, ui, so the  *)
(* proofs are about those functions: what each leaves alone, what it keeps *)
(* shown, and what a loop over them (Steps) keeps.                         *)
(***************************************************************************)
EXTENDS AIRunEvents, FiniteSetTheorems, SequenceTheorems, WellFoundedInduction, TLAPS

-----------------------------------------------------------------------------
(* Induction, over sets of numbers.                                        *)

(***************************************************************************)
(* A set of natural numbers that is not empty has a least member.          *)
(***************************************************************************)
LEMMA Smallest ==
    ASSUME NEW M, M \subseteq Nat, M # {}
    PROVE  \E x \in M : \A y \in M : x <= y
<1>1. PICK x \in M : \A y \in M : <<y, x>> \notin OpToRel(<, Nat)
  BY WFMin, NatLessThanWellFounded, Zenon
<1>2. \A y \in M : ~(y < x)
  BY <1>1, Zenon DEF OpToRel
<1>3. x \in M
  BY <1>1, Zenon
<1> QED
  BY <1>2, <1>3

(***************************************************************************)
(* Induction from 0 up to n: what Steps needs.                             *)
(***************************************************************************)
LEMMA UpTo ==
    ASSUME NEW n \in Nat, NEW T, 0 \in T, \A i \in 1..n : i - 1 \in T => i \in T
    PROVE  n \in T
<1> SUFFICES ASSUME n \notin T PROVE FALSE
  OBVIOUS
<1> DEFINE M == {i \in 0..n : i \notin T}
<1>1. M \subseteq Nat /\ M # {}
  OBVIOUS
<1>2. PICK x \in M : \A y \in M : x <= y
  <2> HIDE DEF M
  <2> QED
    BY <1>1, Smallest
<1>3. x \in 1..n /\ x - 1 \in T
  BY <1>2
<1> QED
  BY <1>2, <1>3

-----------------------------------------------------------------------------
(* The ledger.                                                             *)

\* What the events of a run may follow (AppendEvent).
LogOK ==
    /\ log \in Seq(Kinds) /\ Len(log) <= MaxEvents
    /\ \A i \in 2..Len(log) : log[i] \in After(log[i - 1])
    /\ log # <<>> => log[1] \in First

(***************************************************************************)
(* A terminal event is the last one, and a turn ends after a delta of it.  *)
(***************************************************************************)
LEMMA LogOrder ==
    ASSUME LogOK
    PROVE  \A i \in 1..Len(log) :
               /\ log[i] \in Ends => i = Len(log)
               /\ log[i] = "turn" => i > 1 /\ log[i - 1] = "delta"
<1> SUFFICES ASSUME NEW i \in 1..Len(log)
             PROVE  /\ log[i] \in Ends => i = Len(log)
                    /\ log[i] = "turn" => i > 1 /\ log[i - 1] = "delta"
  OBVIOUS
<1> Len(log) \in Nat /\ log # <<>>
  BY DEF LogOK
<1>1. CASE i = 1
  <2>1. log[i] \in {"input", "canceling"}
    BY <1>1 DEF LogOK, First
  <2>2. ASSUME log[i] \in Ends, i # Len(log) PROVE FALSE
    <3>1. log[i + 1] \in After(log[i])
      BY <2>2 DEF LogOK
    <3> QED
      BY <2>2, <3>1 DEF After, Ends, Failures
  <2> QED
    BY <1>1, <2>1, <2>2
<1>2. CASE i > 1
  <2>1. log[i] \in After(log[i - 1]) /\ log[i - 1] \in Kinds
    BY <1>2 DEF LogOK
  <2>2. ASSUME log[i] \in Ends, i # Len(log) PROVE FALSE
    <3>1. log[i + 1] \in After(log[i])
      BY <2>2 DEF LogOK
    <3> QED
      BY <2>2, <3>1 DEF After, Ends, Failures
  <2>3. log[i] = "turn" => log[i - 1] = "delta"
    BY <2>1 DEF After, Kinds, Ends, Failures
  <2> QED
    BY <1>2, <2>2, <2>3
<1> QED
  BY <1>1, <1>2

(***************************************************************************)
(* The text of a turn is a text, and not the empty one.                    *)
(***************************************************************************)
LEMMA TurnTextType ==
    ASSUME LogOK, NEW n \in 1..Len(log)
    PROVE  /\ TurnText(n) \in Text
           /\ log[n] = "turn" => TurnText(n) # <<>>
<1> DEFINE D(m) == \A i \in m..(n - 1) : log[i] = "delta"
           Starts(m) == D(m) /\ (m = 1 \/ log[m - 1] # "delta")
           M == {m \in 1..n : D(m)}
           first == CHOOSE m \in 1..n : Starts(m)
<1> Len(log) \in Nat /\ MaxEvents \in Nat /\ Len(log) <= MaxEvents
  BY AIRunEventsAssumption DEF LogOK
<1>1. M \subseteq Nat /\ n \in M
  OBVIOUS
<1>2. PICK x \in M : \A y \in M : x <= y
  <2> HIDE DEF M
  <2> QED
    BY <1>1, Smallest
<1>3. Starts(x)
  <2> SUFFICES ASSUME x # 1, log[x - 1] = "delta" PROVE FALSE
    BY <1>2
  <2>1. x - 1 \in M
    BY <1>2
  <2> QED
    BY <1>2, <2>1
<1>4. first \in 1..n /\ Starts(first)
  <2> HIDE DEF Starts
  <2> QED
    BY <1>2, <1>3
<1>5. TurnText(n) = [i \in 1..(n - first) |-> first + i - 1]
  BY DEF TurnText
<1> HIDE DEF first
<1>6. PICK m \in 1..n : Starts(m) /\ TurnText(n) = [i \in 1..(n - m) |-> m + i - 1]
  BY <1>4, <1>5
<1> HIDE DEF Starts
<1>7. TurnText(n) \in Text /\ Len(TurnText(n)) = n - m
  <2>1. PICK k \in Nat : k = n - m
    OBVIOUS
  <2>2. TurnText(n) = [i \in 1..k |-> m + i - 1]
    BY <1>6, <2>1
  <2>3. \A i \in 1..k : m + i - 1 \in 1..MaxEvents
    BY <2>1
  <2>4. [i \in 1..k |-> m + i - 1] \in Seq(1..MaxEvents)
    BY <2>3
  <2> QED
    BY <2>1, <2>2, <2>4 DEF Text
<1>8. log[n] = "turn" => n # m
  BY <1>6, LogOrder DEF Starts
<1> QED
  BY <1>7, <1>8
-----------------------------------------------------------------------------
(* Texts: what a text holds, and what appendModelTurn and completedValue   *)
(* keep of both their arguments.                                           *)

(***************************************************************************)
(* The elements of a text, and how one is made of numbers.                 *)
(***************************************************************************)
LEMMA TextElements ==
    /\ \A t \in Text : Len(t) \in Nat /\ \A i \in 1..Len(t) : t[i] \in 1..MaxEvents
    /\ \A k \in Nat : \A f \in [1..k -> 1..MaxEvents] : f \in Text /\ Len(f) = k
<1>1. ASSUME NEW t \in Text
      PROVE  Len(t) \in Nat /\ \A i \in 1..Len(t) : t[i] \in 1..MaxEvents
  BY ElementOfSeq, LenProperties DEF Text
<1>2. ASSUME NEW k \in Nat, NEW f \in [1..k -> 1..MaxEvents]
      PROVE  f \in Text /\ Len(f) = k
  <2>1. f \in Seq(1..MaxEvents)
    BY SeqDef
  <2>2. DOMAIN f = 1..k /\ DOMAIN f = 1..Len(f) /\ Len(f) \in Nat
    BY <2>1, LenProperties
  <2> QED
    BY <2>1, <2>2 DEF Text
<1> QED
  BY <1>1, <1>2

(***************************************************************************)
(* Holds, element by element.                                              *)
(***************************************************************************)
LEMMA HoldsAt ==
    ASSUME NEW t \in Text, NEW part \in Text, NEW i \in 0..(Len(t) - Len(part)),
           \A j \in 1..Len(part) : t[i + j] = part[j]
    PROVE  Holds(t, part)
<1> DEFINE cut == SubSeq(t, i + 1, i + Len(part))
<1>1. /\ Len(t) \in Nat /\ Len(part) \in Nat /\ i \in Nat
      /\ \A k \in (i + 1)..(i + Len(part)) : t[k] \in 1..MaxEvents
  BY TextElements
<1>2. cut \in Text /\ Len(cut) = Len(part) /\ \A j \in 1..Len(part) : cut[j] = t[i + j]
  BY <1>1, SubSeqProperties DEF Text
<1>3. cut = part
  BY <1>2, SeqEqual DEF Text
<1> QED
  BY <1>3 DEF Holds

(***************************************************************************)
(* The converse: where a part is found.                                    *)
(***************************************************************************)
LEMMA HeldAt ==
    ASSUME NEW t \in Text, NEW part \in Text, Holds(t, part)
    PROVE  \E i \in 0..(Len(t) - Len(part)) : \A j \in 1..Len(part) : t[i + j] = part[j]
<1>1. PICK i \in 0..(Len(t) - Len(part)) : SubSeq(t, i + 1, i + Len(part)) = part
  BY DEF Holds
<1>2. /\ Len(t) \in Nat /\ Len(part) \in Nat /\ i \in Nat
      /\ \A k \in (i + 1)..(i + Len(part)) : t[k] \in 1..MaxEvents
  BY TextElements
<1>3. \A j \in 1..Len(part) : SubSeq(t, i + 1, i + Len(part))[j] = t[i + j]
  BY <1>2, SubSeqProperties DEF Text
<1> QED
  BY <1>1, <1>3

(***************************************************************************)
(* A text holds itself, and what a part of it holds.                       *)
(***************************************************************************)
LEMMA HoldsOrder ==
    /\ \A t \in Text : Holds(t, t)
    /\ \A t, u, v \in Text : Holds(t, u) /\ Holds(u, v) => Holds(t, v)
<1>1. ASSUME NEW t \in Text PROVE Holds(t, t)
  <2>1. Len(t) \in Nat /\ 0 \in 0..(Len(t) - Len(t)) /\ \A j \in 1..Len(t) : t[0 + j] = t[j]
    BY DEF Text
  <2> QED
    BY <2>1, HoldsAt
<1>2. ASSUME NEW t \in Text, NEW u \in Text, NEW v \in Text, Holds(t, u), Holds(u, v)
      PROVE  Holds(t, v)
  <2>1. PICK i \in 0..(Len(t) - Len(u)) : \A j \in 1..Len(u) : t[i + j] = u[j]
    BY <1>2, HeldAt
  <2>2. PICK k \in 0..(Len(u) - Len(v)) : \A j \in 1..Len(v) : u[k + j] = v[j]
    BY <1>2, HeldAt
  <2>3. Len(t) \in Nat /\ Len(u) \in Nat /\ Len(v) \in Nat
    BY DEF Text
  <2>4. i + k \in 0..(Len(t) - Len(v))
    BY <2>3
  <2>5. \A j \in 1..Len(v) : t[(i + k) + j] = v[j]
    <3> TAKE j \in 1..Len(v)
    <3>1. k + j \in 1..Len(u) /\ i + (k + j) = (i + k) + j
      BY <2>3
    <3> QED
      BY <2>1, <2>2, <3>1
  <2> QED
    BY <2>4, <2>5, HoldsAt
<1> QED
  BY <1>1, <1>2

(***************************************************************************)
(* Every text holds the empty one, and only that one is held by it.        *)
(***************************************************************************)
LEMMA HoldsEmpty ==
    /\ <<>> \in Text
    /\ \A t \in Text : Holds(t, <<>>)
    /\ \A t \in Text : Holds(<<>>, t) => t = <<>>
<1>1. <<>> \in Text /\ Len(<<>>) = 0
  BY DEF Text
<1>2. ASSUME NEW t \in Text PROVE Holds(t, <<>>)
  <2>1. Len(t) \in Nat /\ 0 \in 0..(Len(t) - Len(<<>>))
    BY DEF Text
  <2>2. \A j \in 1..Len(<<>>) : t[0 + j] = <<>>[j]
    OBVIOUS
  <2> QED
    BY <1>1, <2>1, <2>2, HoldsAt
<1>3. ASSUME NEW t \in Text, Holds(<<>>, t) PROVE t = <<>>
  <2>1. PICK i \in 0..(Len(<<>>) - Len(t)) : \A j \in 1..Len(t) : <<>>[i + j] = t[j]
    BY <1>1, <1>3, HeldAt
  <2>2. Len(t) = 0
    BY <1>1, <2>1, TextElements
  <2> QED
    BY <2>2, EmptySeq DEF Text
<1> QED
  BY <1>1, <1>2, <1>3

(***************************************************************************)
(* A text holds its beginnings and its ends.                               *)
(***************************************************************************)
LEMMA HoldsEnds ==
    ASSUME NEW t \in Text, NEW part \in Text, IsPrefix(part, t) \/ IsSuffix(part, t)
    PROVE  Holds(t, part)
<1> Len(t) \in Nat /\ Len(part) \in Nat
  BY DEF Text
<1>1. CASE IsPrefix(part, t)
  <2>1. Len(part) <= Len(t) /\ SubSeq(part, 1, Len(part)) = SubSeq(t, 1, Len(part))
    BY <1>1 DEF IsPrefix
  <2>2. \A j \in 1..Len(part) : SubSeq(t, 1, Len(part))[j] = t[j]
    BY <2>1, SubSeqProperties DEF Text
  <2>3. SubSeq(part, 1, Len(part)) = part
    BY SubSeqFull DEF Text
  <2>4. 0 \in 0..(Len(t) - Len(part)) /\ \A j \in 1..Len(part) : t[0 + j] = part[j]
    BY <2>1, <2>2, <2>3
  <2> QED
    BY <2>4, HoldsAt
<1>2. CASE IsSuffix(part, t)
  <2> DEFINE rt == Reverse(t)
             rp == Reverse(part)
  <2>1. /\ rt \in Text /\ Len(rt) = Len(t) /\ \A j \in 1..Len(t) : rt[j] = t[Len(t) - j + 1]
        /\ rp \in Text /\ Len(rp) = Len(part)
        /\ \A j \in 1..Len(part) : rp[j] = part[Len(part) - j + 1]
    <3>1. \A s \in Text : /\ Reverse(s) \in Text /\ Len(Reverse(s)) = Len(s)
                          /\ \A j \in 1..Len(s) : Reverse(s)[j] = s[Len(s) - j + 1]
      <4> TAKE s \in Text
      <4>1. PICK k \in Nat : k = Len(s)
        BY TextElements
      <4>2. Reverse(s) = [j \in 1..k |-> s[k - j + 1]]
        BY <4>1 DEF Reverse
      <4>3. Reverse(s) \in [1..k -> 1..MaxEvents]
        BY <4>1, <4>2, TextElements
      <4> QED
        BY <4>1, <4>2, <4>3, TextElements
    <3> QED
      BY <3>1
  <2> HIDE DEF rt, rp
  <2>2. Len(part) <= Len(t) /\ SubSeq(rp, 1, Len(rp)) = SubSeq(rt, 1, Len(rp))
    BY <1>2, <2>1 DEF IsSuffix, IsPrefix, rt, rp
  <2>3. \A j \in 1..Len(part) : SubSeq(rt, 1, Len(rp))[j] = rt[j]
    BY <2>1, <2>2, SubSeqProperties DEF Text
  <2>4. SubSeq(rp, 1, Len(rp)) = rp
    BY <2>1, SubSeqFull DEF Text
  <2>5. \A j \in 1..Len(part) : part[Len(part) - j + 1] = t[Len(t) - j + 1]
    BY <2>1, <2>2, <2>3, <2>4
  <2>6. \A j \in 1..Len(part) : t[(Len(t) - Len(part)) + j] = part[j]
    <3> TAKE j \in 1..Len(part)
    <3>1. PICK k \in 1..Len(part) : k = Len(part) - j + 1
      OBVIOUS
    <3>2. part[Len(part) - k + 1] = t[Len(t) - k + 1]
      BY <2>5
    <3>3. Len(part) - k + 1 = j /\ Len(t) - k + 1 = (Len(t) - Len(part)) + j
      BY <3>1
    <3> QED
      BY <3>2, <3>3
  <2>7. Len(t) - Len(part) \in 0..(Len(t) - Len(part))
    BY <2>2
  <2> QED
    BY <2>6, <2>7, HoldsAt
<1> QED
  BY <1>1, <1>2

(***************************************************************************)
(* A concatenation holds both its parts.                                   *)
(***************************************************************************)
LEMMA HoldsParts ==
    ASSUME NEW t \in Text, NEW u \in Text
    PROVE  t \o u \in Text /\ Holds(t \o u, t) /\ Holds(t \o u, u)
<1> Len(t) \in Nat /\ Len(u) \in Nat
  BY DEF Text
<1> DEFINE c == t \o u
<1>1. /\ c \in Text /\ Len(c) = Len(t) + Len(u)
      /\ \A i \in 1..(Len(t) + Len(u)) : c[i] = IF i <= Len(t) THEN t[i] ELSE u[i - Len(t)]
  BY ConcatProperties DEF Text
<1> HIDE DEF c
<1>2. 0 \in 0..(Len(c) - Len(t)) /\ \A j \in 1..Len(t) : c[0 + j] = t[j]
  BY <1>1
<1>3. Len(t) \in 0..(Len(c) - Len(u)) /\ \A j \in 1..Len(u) : c[Len(t) + j] = u[j]
  BY <1>1
<1>4. Holds(c, t) /\ Holds(c, u)
  BY <1>1, <1>2, <1>3, HoldsAt
<1> QED
  BY <1>1, <1>4 DEF c

(***************************************************************************)
(* appendModelTurn loses neither what was there nor the turn it adds.      *)
(***************************************************************************)
LEMMA AppendModelTurnHolds ==
    ASSUME NEW done \in Text, NEW turn \in Text
    PROVE  /\ AppendModelTurn(done, turn) \in Text
           /\ Holds(AppendModelTurn(done, turn), done)
           /\ Holds(AppendModelTurn(done, turn), turn)
<1>1. CASE IsSuffix(turn, done)
  BY <1>1, HoldsEnds, HoldsOrder DEF AppendModelTurn
<1>2. CASE ~IsSuffix(turn, done) /\ IsPrefix(done, turn)
  BY <1>2, HoldsEnds, HoldsOrder DEF AppendModelTurn
<1>3. CASE ~IsSuffix(turn, done) /\ ~IsPrefix(done, turn)
  BY <1>3, HoldsParts DEF AppendModelTurn
<1> QED
  BY <1>1, <1>2, <1>3

(***************************************************************************)
(* completedValue never loses the text that the model completed.           *)
(***************************************************************************)
LEMMA CompletedValueHolds ==
    ASSUME NEW shown \in Text, NEW final \in Text
    PROVE  /\ CompletedValue(shown, final) \in Text
           /\ Holds(CompletedValue(shown, final), final)
BY HoldsOrder, HoldsEmpty DEF CompletedValue

-----------------------------------------------------------------------------
(* The loop of the durable text.                                           *)

(***************************************************************************)
(* The durable message of a run is a text (toAIChatMessages).              *)
(***************************************************************************)
LEMMA DurableTextType ==
    ASSUME LogOK, NEW n \in 0..Len(log)
    PROVE  DurableText(n) \in Text
<1> DEFINE Step(t, i) == IF i \in TurnsAt(n) THEN t \o TurnText(i) ELSE t
           Loop(f, m) == f = [i \in 0..m |-> IF i = 0 THEN <<>> ELSE Step(f[i - 1], i)]
           after == CHOOSE f : Loop(f, n)
           E == {m \in 0..n : \E f : Loop(f, m)}
           T == {i \in 0..n : after[i] \in Text}
<1> n \in Nat /\ Len(log) \in Nat
  BY DEF LogOK
<1>1. DurableText(n) = after[n]
  BY DEF DurableText, Steps
<1>2. \A t \in Text, i \in 1..n : Step(t, i) \in Text
  BY TurnTextType, HoldsParts DEF TurnsAt
<1> HIDE DEF Step
<1>3. 0 \in E
  <2>1. Loop([i \in 0..0 |-> <<>>], 0)
    OBVIOUS
  <2> HIDE DEF Loop
  <2> QED
    BY <2>1
<1>4. \A m \in 1..n : m - 1 \in E => m \in E
  <2> SUFFICES ASSUME NEW m \in 1..n, m - 1 \in E PROVE m \in E
    OBVIOUS
  <2>1. PICK f : Loop(f, m - 1)
    OBVIOUS
  <2> DEFINE g == [i \in 0..m |-> IF i = m THEN Step(f[m - 1], m) ELSE f[i]]
  <2>2. Loop(g, m)
    BY <2>1
  <2>3. \E h : Loop(h, m)
    <3> HIDE DEF g, Loop
    <3> QED
      BY <2>2
  <2> QED
    BY <2>3
<1>5. Loop(after, n)
  <2>1. n \in E
    <3> HIDE DEF E
    <3> QED
      BY <1>3, <1>4, UpTo
  <2> HIDE DEF Loop
  <2>2. \E f : Loop(f, n)
    BY <2>1
  <2> QED
    BY <2>2
<1> HIDE DEF after
<1>6. 0 \in T /\ \A i \in 1..n : i - 1 \in T => i \in T
  BY <1>2, <1>5, HoldsEmpty
<1>7. n \in T
  <2> HIDE DEF T
  <2> QED
    BY <1>6, UpTo
<1> QED
  BY <1>1, <1>7

-----------------------------------------------------------------------------
(* The rows of the chat.                                                   *)

\* The type of the panel's state after the events that are in the ledger now.
Ui == [cursor : 0..Len(log), over : BOOLEAN, row : Rows \cup {None}, done : Text, turn : Text,
       handled : BOOLEAN, lastError : 0..Len(log), error : 0..Len(log),
       rows : [Rows -> Row \cup {None}], hydrating : SUBSET (0..Len(log)),
       sending : BOOLEAN, mine : BOOLEAN, tracked : BOOLEAN, keyed : BOOLEAN,
       pending : SUBSET (1..Len(log)), timer : BOOLEAN, read : Read \cup {None},
       replay : Replay \cup {None}]

\* The panel has read as much of the run in t as in s, and is as busy reading.
SameReads(s, t) ==
    /\ t.cursor = s.cursor /\ t.over = s.over /\ t.pending = s.pending
    /\ t.timer = s.timer /\ t.read = s.read

\* They differ in nothing but the rows of the chat.
Alike(s, t) ==
    /\ SameReads(s, t) /\ t.replay = s.replay
    /\ t.handled = s.handled /\ t.lastError = s.lastError /\ t.error = s.error

\* The replay of s goes on: what it has counted stays counted.
ReplayOn(s, t) ==
    /\ t.replay = None <=> s.replay = None
    /\ s.replay # None => /\ s.replay.turns \subseteq t.replay.turns
                          /\ t.replay.durable = s.replay.durable
                          /\ s.replay.live => t.replay.live

\* The row of the run shows the part, and what comes next is put after it.
Showing(s, part) ==
    Shown(s, s.row) /\ Holds(s.done, part) /\ Holds(s.rows[s.row].text, part)

Keeps(s, t) == \A part \in Text \ {<<>>} : Showing(s, part) => Showing(t, part)

(***************************************************************************)
(* Alike and Keeps along a sequence of steps.                              *)
(***************************************************************************)
LEMMA Chain ==
    /\ \A s : Alike(s, s) /\ Keeps(s, s)
    /\ \A s, t, u : Alike(s, t) /\ Alike(t, u) => Alike(s, u)
    /\ \A s, t, u : Keeps(s, t) /\ Keeps(t, u) => Keeps(s, u)
BY DEF Alike, SameReads, Keeps

(***************************************************************************)
(* And ReplayOn, which only what is done to a replay can break.            *)
(***************************************************************************)
LEMMA ReplayChain ==
    /\ \A s, t : t.replay = s.replay => ReplayOn(s, t)
    /\ \A s, t, u : ReplayOn(s, t) /\ ReplayOn(t, u) => ReplayOn(s, u)
    /\ \A s, t, n : ReplayOn(s, t) /\ LeftToShown(s, n) => LeftToShown(t, n)
<1>1. \A s, t : t.replay = s.replay => ReplayOn(s, t)
  BY DEF ReplayOn
<1>2. ASSUME NEW s, NEW t, NEW u, ReplayOn(s, t), ReplayOn(t, u)
      PROVE  ReplayOn(s, u)
  BY <1>2, Zenon DEF ReplayOn
<1>3. ASSUME NEW s, NEW t, NEW n, ReplayOn(s, t), LeftToShown(s, n)
      PROVE  LeftToShown(t, n)
  BY <1>3 DEF ReplayOn, LeftToShown
<1> QED
  BY <1>1, <1>2, <1>3

(***************************************************************************)
(* A row of the chat is replaced.                                          *)
(***************************************************************************)
LEMMA NewRow ==
    ASSUME NEW s \in Ui, NEW row \in Rows, NEW new \in Row,
           NEW t, t = [s EXCEPT !.rows[row] = new]
    PROVE  /\ t \in Ui /\ Alike(s, t)
           /\ t.row = s.row /\ t.done = s.done /\ t.turn = s.turn
           /\ Shown(t, row) /\ t.rows[row] = new
           /\ \A r \in Rows \ {row} : t.rows[r] = s.rows[r]
<1> new # None /\ row # None
  BY NoneIsNothingElse
<1> QED
  BY DEF Ui, Alike, SameReads, Shown

\* The row that Put puts into the chat.
Loading(text) == [loading |-> TRUE, text |-> text]

(***************************************************************************)
(* It is a row, and shows the text.                                        *)
(***************************************************************************)
LEMMA LoadingRow == \A text \in Text : Loading(text) \in Row /\ Loading(text).text = text
BY DEF Loading, Row

(***************************************************************************)
(* A row is marked as loading or as done; its text stays.                  *)
(***************************************************************************)
LEMMA SettleRow ==
    ASSUME NEW s \in Ui, NEW loading \in BOOLEAN
    PROVE  LET t == Settle(s, loading) IN
           /\ t \in Ui /\ Alike(s, t) /\ Keeps(s, t)
           /\ t.row = s.row
<1> DEFINE t == Settle(s, loading)
<1>1. CASE ~Shown(s, s.row)
  BY <1>1, Chain DEF Settle
<1>2. CASE Shown(s, s.row)
  <2>1. s.row \in Rows /\ s.rows[s.row] \in Row /\ s.row # None
    BY <1>2 DEF Shown, Ui
  <2>2. PICK row : row = [s.rows[s.row] EXCEPT !.loading = loading]
    OBVIOUS
  <2>3. row \in Row /\ row.text = s.rows[s.row].text /\ row # None
    BY <2>1, <2>2, NoneIsNothingElse DEF Row
  <2>4. t = [s EXCEPT !.rows[s.row] = row]
    BY <1>2, <2>2 DEF Settle
  <2>5. /\ t \in Ui /\ Alike(s, t) /\ t.row = s.row /\ t.done = s.done
        /\ t.rows[s.row] = row
    <3> HIDE DEF t
    <3> QED
      BY <2>1, <2>3, <2>4, NewRow
  <2> QED
    BY <2>3, <2>5 DEF Keeps, Showing, Shown
<1> QED
  BY <1>1, <1>2

(***************************************************************************)
(* The row a run finds when it has none.                                   *)
(***************************************************************************)
LEMMA ExistingRow ==
    ASSUME NEW s \in Ui
    PROVE  /\ Existing(s) \in Rows \cup {None}
           /\ Existing(s) # None => Shown(s, Existing(s))
BY DEF Existing, Shown, Rows

(***************************************************************************)
(* Every event binds the run to a row, if there is one.                    *)
(***************************************************************************)
LEMMA BindRow ==
    ASSUME NEW s \in Ui
    PROVE  Bind(s) \in Ui /\ Alike(s, Bind(s)) /\ Keeps(s, Bind(s))
<1>1. CASE Shown(s, s.row) \/ Existing(s) = None
  BY <1>1, Chain DEF Bind
<1>2. CASE ~Shown(s, s.row) /\ Existing(s) # None
  <2>1. Bind(s) = [s EXCEPT !.row = Existing(s)]
    BY <1>2 DEF Bind
  <2> QED
    BY <1>2, <2>1, ExistingRow DEF Ui, Alike, SameReads, Keeps, Showing
<1> QED
  BY <1>1, <1>2

(***************************************************************************)
(* ensureAssistantMessage: afterwards the run has a row.                   *)
(***************************************************************************)
LEMMA EnsureRow ==
    ASSUME NEW s \in Ui
    PROVE  LET e == Ensure(s) IN
           /\ e \in Ui /\ Alike(s, e) /\ Keeps(s, e)
           /\ e.row \in Rows /\ Shown(e, e.row)
<1> DEFINE row == Existing(s)
           e == Ensure(s)
<1>1. CASE Shown(s, s.row)
  BY <1>1, Chain DEF Ensure, Shown, Ui
<1>2. CASE ~Shown(s, s.row) /\ row = None
  <2>1. PICK b : b = [s EXCEPT !.row = "transient"]
    OBVIOUS
  <2>2. b \in Ui /\ Alike(s, b) /\ b.row = "transient"
    BY <2>1 DEF Ui, Alike, SameReads, Rows
  <2>3. e = [b EXCEPT !.rows["transient"] = Loading(<<>>)]
    BY <1>2, <2>1 DEF Ensure, Put, Loading
  <2>4. e \in Ui /\ Alike(b, e) /\ e.row = b.row /\ Shown(e, "transient")
    <3>1. "transient" \in Rows /\ Loading(<<>>) \in Row
      BY HoldsEmpty, LoadingRow DEF Rows
    <3> HIDE DEF e
    <3> QED
      BY <2>2, <2>3, <3>1, NewRow
  <2> QED
    BY <1>2, <2>2, <2>4, Chain DEF Rows, Keeps, Showing
<1>3. CASE ~Shown(s, s.row) /\ row # None
  <2>1. row \in Rows /\ Shown(s, row) /\ s.rows[row] \in Row /\ s.rows[row].text \in Text
    BY <1>3, ExistingRow DEF Ui, Shown, Row
  <2>2. \/ e = [s EXCEPT !.row = row]
        \/ e = [s EXCEPT !.row = row, !.turn = s.rows[row].text]
        \/ e = [s EXCEPT !.row = row, !.done = s.rows[row].text]
    BY <1>3 DEF Ensure
  <2>3. e \in Ui /\ Alike(s, e) /\ e.row = row /\ e.rows = s.rows
    BY <2>1, <2>2 DEF Ui, Alike, SameReads
  <2> QED
    BY <1>3, <2>1, <2>3 DEF Keeps, Showing, Shown
<1> QED
  BY <1>1, <1>2, <1>3

-----------------------------------------------------------------------------
(* The events of a run.                                                    *)

(***************************************************************************)
(* A delta is added behind everything that is shown already.               *)
(***************************************************************************)
LEMMA DeltaShown ==
    ASSUME NEW e \in Ui, e.row \in Rows, NEW n \in 1..MaxEvents
    PROVE  LET t == DeltaInto(e, n) IN t \in Ui /\ Alike(e, t) /\ Keeps(e, t)
<1> DEFINE t == DeltaInto(e, n)
           turn == Append(e.turn, n)
           text == AppendModelTurn(e.done, turn)
           b == [e EXCEPT !.turn = turn]
<1>1. e.done \in Text /\ e.turn \in Text /\ turn \in Text
  BY DEF Ui, Text
<1> HIDE DEF turn
<1>2. text \in Text /\ Holds(text, e.done)
  BY <1>1, AppendModelTurnHolds
<1> HIDE DEF text
<1>3. b \in Ui /\ Alike(e, b) /\ b.row = e.row /\ b.done = e.done
  BY <1>1 DEF Ui, Alike, SameReads
<1>4. t = [b EXCEPT !.rows[e.row] = Loading(text)]
  BY DEF DeltaInto, Put, Loading, turn, text
<1>5. Loading(text) \in Row /\ Loading(text).text = text
  BY <1>2, LoadingRow
<1> HIDE DEF b, t
<1>6. /\ t \in Ui /\ Alike(b, t) /\ t.row = e.row /\ t.done = e.done
      /\ Shown(t, e.row) /\ t.rows[e.row] = Loading(text)
  <2>1. PICK row \in Rows : row = e.row
    OBVIOUS
  <2>2. t = [b EXCEPT !.rows[row] = Loading(text)]
    BY <1>4, <2>1
  <2>3. t \in Ui /\ Alike(b, t) /\ t.row = b.row /\ t.done = b.done /\ Shown(t, row)
    BY <1>3, <1>5, <2>2, NewRow
  <2>4. t.rows[row] = Loading(text)
    BY <1>3, <2>2 DEF Ui
  <2> QED
    BY <1>3, <2>1, <2>3, <2>4
<1>7. Keeps(e, t)
  <2> SUFFICES ASSUME NEW part \in Text, Showing(e, part) PROVE Showing(t, part)
    BY DEF Keeps
  <2>1. Holds(text, part)
    BY <1>1, <1>2, HoldsOrder DEF Showing
  <2> QED
    BY <1>5, <1>6, <2>1 DEF Showing
<1>8. Alike(e, t)
  BY <1>3, <1>6, Chain
<1> QED
  BY <1>6, <1>7, <1>8 DEF t

(***************************************************************************)
(* The end of a turn shows the text the model completed, behind everything *)
(* that is shown already (applyAIRunEvent on model_completed).             *)
(***************************************************************************)
LEMMA TurnEndShown ==
    ASSUME LogOK, NEW e \in Ui, e.row \in Rows, Shown(e, e.row), NEW n \in 1..Len(log)
    PROVE  LET t == TurnInto(e, n) IN
           /\ t \in Ui /\ Alike(e, t) /\ Keeps(e, t)
           /\ log[n] = "turn" => Showing(t, TurnText(n))
<1> DEFINE t == TurnInto(e, n)
           value == CompletedValue(e.turn, TurnText(n))
           done == AppendModelTurn(e.done, value)
           text == IF done = <<>> THEN e.rows[e.row].text ELSE done
           b == [e EXCEPT !.done = done, !.turn = <<>>]
<1>1. e.done \in Text /\ e.turn \in Text /\ e.rows[e.row].text \in Text /\ <<>> \in Text
  BY HoldsEmpty DEF Ui, Row, Shown
<1>2. TurnText(n) \in Text /\ (log[n] = "turn" => TurnText(n) # <<>>)
  BY TurnTextType
<1>3. value \in Text /\ Holds(value, TurnText(n))
  BY <1>1, <1>2, CompletedValueHolds
<1> HIDE DEF value
<1>4. done \in Text /\ Holds(done, e.done) /\ Holds(done, value)
  BY <1>1, <1>3, AppendModelTurnHolds
<1> HIDE DEF done
<1>5. text \in Text
  BY <1>1, <1>4
<1>6. b \in Ui /\ Alike(e, b) /\ b.row = e.row /\ b.done = done
  BY <1>1, <1>4 DEF Ui, Alike, SameReads
<1>7. t = [b EXCEPT !.rows[e.row] = Loading(text)]
  BY DEF TurnInto, Put, Loading, value, done
<1>8. ASSUME NEW part \in Text \ {<<>>}, Holds(done, part)
      PROVE  Holds(text, part)
  BY <1>8, HoldsEmpty
<1> HIDE DEF text
<1>9. Loading(text) \in Row /\ Loading(text).text = text
  BY <1>5, LoadingRow
<1> HIDE DEF b, t
<1>10. /\ t \in Ui /\ Alike(b, t) /\ t.row = e.row /\ t.done = done
       /\ Shown(t, e.row) /\ t.rows[e.row] = Loading(text)
  <2>1. PICK row \in Rows : row = e.row
    OBVIOUS
  <2>2. t = [b EXCEPT !.rows[row] = Loading(text)]
    BY <1>7, <2>1
  <2>3. t \in Ui /\ Alike(b, t) /\ t.row = b.row /\ t.done = b.done /\ Shown(t, row)
    BY <1>6, <1>9, <2>2, NewRow
  <2>4. t.rows[row] = Loading(text)
    BY <1>6, <2>2 DEF Ui
  <2> QED
    BY <1>6, <2>1, <2>3, <2>4
<1>11. ASSUME NEW part \in Text \ {<<>>}, Holds(done, part)
       PROVE  Showing(t, part)
  BY <1>8, <1>9, <1>10, <1>11 DEF Showing
<1>12. Keeps(e, t)
  <2> SUFFICES ASSUME NEW part \in Text \ {<<>>}, Showing(e, part) PROVE Showing(t, part)
    BY DEF Keeps
  <2>1. Holds(done, part)
    BY <1>1, <1>4, HoldsOrder DEF Showing
  <2> QED
    BY <1>11, <2>1
<1>13. Holds(done, TurnText(n))
  BY <1>2, <1>3, <1>4, HoldsOrder
<1>14. Alike(e, t)
  BY <1>6, <1>10, Chain
<1> QED
  BY <1>2, <1>10, <1>11, <1>12, <1>13, <1>14 DEF t

(***************************************************************************)
(* The same for a run that may still have to find its row.                 *)
(***************************************************************************)
LEMMA DeltaApplied ==
    ASSUME NEW s \in Ui, NEW n \in 1..MaxEvents
    PROVE  LET t == ApplyDelta(s, n) IN t \in Ui /\ Alike(s, t) /\ Keeps(s, t)
BY EnsureRow, DeltaShown, Chain DEF ApplyDelta

(***************************************************************************)
(* And for the end of a turn.                                              *)
(***************************************************************************)
LEMMA TurnApplied ==
    ASSUME LogOK, NEW s \in Ui, NEW n \in 1..Len(log)
    PROVE  LET t == ApplyTurn(s, n) IN
           /\ t \in Ui /\ Alike(s, t) /\ Keeps(s, t)
           /\ log[n] = "turn" => Showing(t, TurnText(n))
BY EnsureRow, TurnEndShown, Chain DEF ApplyTurn

\* The two uses of Settle.
Busy(s)   == Settle(s, TRUE)
Resting(s) == Settle(s, FALSE)

(***************************************************************************)
(* Both leave texts and readings alone.                                    *)
(***************************************************************************)
LEMMA Settled ==
    ASSUME NEW s \in Ui
    PROVE  /\ Busy(s) \in Ui /\ Alike(s, Busy(s)) /\ Keeps(s, Busy(s))
           /\ Resting(s) \in Ui /\ Alike(s, Resting(s)) /\ Keeps(s, Resting(s))
<1>1. TRUE \in BOOLEAN /\ FALSE \in BOOLEAN
  OBVIOUS
<1>2. Busy(s) \in Ui /\ Alike(s, Busy(s)) /\ Keeps(s, Busy(s))
  BY <1>1, SettleRow, Zenon DEF Busy
<1>3. Resting(s) \in Ui /\ Alike(s, Resting(s)) /\ Keeps(s, Resting(s))
  BY <1>1, SettleRow, Zenon DEF Resting
<1> QED
  BY <1>2, <1>3

(***************************************************************************)
(* The event that a run failed with is one of the run.                     *)
(***************************************************************************)
LEMMA CauseType == ASSUME LogOK PROVE Cause \in 0..Len(log)
BY DEF LogOK, Cause

(***************************************************************************)
(* A failed run keeps every text; the error row is new (applyTerminal).    *)
(***************************************************************************)
LEMMA Failed ==
    ASSUME LogOK, NEW s \in Ui
    PROVE  LET t == Fail(s) IN
           /\ t \in Ui /\ SameReads(s, t) /\ Keeps(s, t)
           /\ t.replay = s.replay /\ t.lastError = s.lastError /\ t.handled = s.handled
           /\ t.error = IF s.lastError # 0 THEN s.lastError ELSE Cause
<1> DEFINE left(r) == IF s.rows[r] # None /\ s.rows[r].loading /\ s.rows[r].text = <<>>
                      THEN None ELSE s.rows[r]
           rows == [r \in Rows |-> left(r)]
           error == IF s.lastError # 0 THEN s.lastError ELSE Cause
           b == [s EXCEPT !.rows = rows, !.error = error]
<1>1. rows \in [Rows -> Row \cup {None}] /\ error \in 0..Len(log)
  BY CauseType DEF Ui
<1>2. ASSUME NEW part \in Text \ {<<>>}, Showing(s, part)
      PROVE  s.row \in Rows /\ rows[s.row] = s.rows[s.row]
  <2>1. s.row \in Rows /\ Holds(s.rows[s.row].text, part)
    BY <1>2 DEF Showing, Shown, Ui
  <2>2. s.rows[s.row].text # <<>>
    BY <2>1, HoldsEmpty
  <2> QED
    BY <2>1, <2>2
<1>3. Fail(s) = Resting(b)
  BY DEF Fail, Resting
<1> HIDE DEF rows, error
<1>4. /\ b \in Ui /\ SameReads(s, b) /\ b.replay = s.replay
      /\ b.lastError = s.lastError /\ b.error = error /\ b.handled = s.handled
      /\ b.row = s.row /\ b.done = s.done /\ b.rows = rows
  BY <1>1 DEF Ui, SameReads
<1> HIDE DEF b
<1>5. Keeps(s, b)
  BY <1>2, <1>4 DEF Keeps, Showing, Shown
<1>6. Resting(b) \in Ui /\ Alike(b, Resting(b)) /\ Keeps(b, Resting(b))
  BY <1>4, Settled
<1>7. Keeps(s, Resting(b)) /\ SameReads(s, Resting(b))
  BY <1>4, <1>5, <1>6, Chain DEF Alike, SameReads
<1> QED
  BY <1>3, <1>4, <1>6, <1>7 DEF Alike, error

(***************************************************************************)
(* The projection asks for the session once more.                          *)
(***************************************************************************)
LEMMA Hydrated ==
    ASSUME LogOK, NEW s \in Ui
    PROVE  Hydrate(s) \in Ui /\ Alike(s, Hydrate(s)) /\ Keeps(s, Hydrate(s))
<1>1. PICK asked : asked = s.hydrating \cup {Len(log)}
  OBVIOUS
<1>2. asked \in SUBSET (0..Len(log))
  BY <1>1 DEF LogOK, Ui
<1>3. Hydrate(s) = [s EXCEPT !.hydrating = asked, !.sending = FALSE]
  BY <1>1 DEF Hydrate
<1>4. Hydrate(s) \in Ui /\ Alike(s, Hydrate(s))
  BY <1>2, <1>3 DEF Ui, Alike, SameReads
<1>5. Keeps(s, Hydrate(s))
  BY <1>3 DEF Ui, Keeps, Showing, Shown
<1> QED
  BY <1>4, <1>5

\* What an event does to the error row: the first end makes one if it is a
\* failure, of the last error that was projected or of the run's own reason.
Closed(s, t, kind) ==
    IF kind \in Ends /\ ~s.handled
    THEN /\ t.handled
         /\ kind \in Failures => t.error = IF s.lastError # 0 THEN s.lastError ELSE Cause
    ELSE (t.handled <=> s.handled) /\ t.error = s.error

\* What any event does to the panel: nothing to its reads and to what is shown,
\* and an error is remembered.
Applied(s, t, n, kind) ==
    /\ t \in Ui /\ SameReads(s, t) /\ Keeps(s, t) /\ ReplayOn(s, t)
    /\ t.lastError = IF kind = "error" THEN n ELSE s.lastError
    /\ Closed(s, t, kind)

(***************************************************************************)
(* So it does when only the chat changes.                                  *)
(***************************************************************************)
LEMMA AlikeApplied ==
    \A s, t, n, kind :
        t \in Ui /\ Alike(s, t) /\ Keeps(s, t) /\ kind \notin Ends \cup {"error"}
            => Applied(s, t, n, kind)
BY ReplayChain DEF Applied, Closed, Alike

(***************************************************************************)
(* The terminal event, which is handled once.                              *)
(***************************************************************************)
LEMMA TerminalApplied ==
    ASSUME LogOK, NEW s \in Ui, NEW n, NEW end \in Ends
    PROVE  Applied(s, ApplyTerminal(s, end), n, end)
<1> DEFINE t == ApplyTerminal(s, end)
           h == [s EXCEPT !.handled = TRUE]
           b == Bind(h)
<1>0. end # "error"
  BY DEF Ends, Failures
<1>1. CASE s.handled
  <2>1. t = s
    BY <1>1 DEF ApplyTerminal
  <2> QED
    BY <1>0, <1>1, <2>1, Chain, ReplayChain DEF Applied, Closed, SameReads
<1>2. CASE ~s.handled
  <2>1. t = End(b, end)
    BY <1>2 DEF ApplyTerminal
  <2>2. /\ h \in Ui /\ SameReads(s, h) /\ Keeps(s, h) /\ h.handled
        /\ h.replay = s.replay /\ h.lastError = s.lastError /\ h.error = s.error
    BY DEF Ui, SameReads, Keeps, Showing, Shown
  <2> HIDE DEF h
  <2>3. /\ b \in Ui /\ SameReads(s, b) /\ Keeps(s, b) /\ b.handled
        /\ b.replay = s.replay /\ b.lastError = s.lastError /\ b.error = s.error
    BY <2>2, BindRow, Chain DEF Alike, SameReads
  <2> HIDE DEF b, t
  <2>4. CASE end \in Failures
    <3>1. PICK f : f = Fail(b)
      OBVIOUS
    <3>2. t = Hydrate(f)
      BY <2>1, <2>4, <3>1 DEF End
    <3>3. /\ f \in Ui /\ SameReads(b, f) /\ Keeps(b, f)
          /\ f.replay = b.replay /\ f.lastError = b.lastError /\ f.handled = b.handled
          /\ f.error = IF b.lastError # 0 THEN b.lastError ELSE Cause
      BY <2>3, <3>1, Failed
    <3>4. t \in Ui /\ Alike(f, t) /\ Keeps(f, t)
      BY <3>2, <3>3, Hydrated
    <3>5. Keeps(s, t) /\ SameReads(s, t) /\ ReplayOn(s, t)
      BY <2>3, <3>3, <3>4, Chain, ReplayChain DEF Alike, SameReads
    <3>6. /\ t.lastError = s.lastError /\ t.handled
          /\ t.error = IF s.lastError # 0 THEN s.lastError ELSE Cause
      BY <2>3, <3>3, <3>4 DEF Alike
    <3> QED
      BY <1>0, <1>2, <3>4, <3>5, <3>6 DEF Applied, Closed, t
  <2>5. CASE end \notin Failures
    <3>1. t = Hydrate(Resting(b))
      BY <2>1, <2>5, Zenon DEF End, Resting
    <3>2. t \in Ui /\ Alike(b, t) /\ Keeps(b, t)
      BY <2>3, <3>1, Settled, Hydrated, Chain
    <3>3. Keeps(s, t) /\ SameReads(s, t) /\ ReplayOn(s, t)
      BY <2>3, <3>2, Chain, ReplayChain DEF Alike, SameReads
    <3>4. t.lastError = s.lastError /\ t.handled
      BY <2>3, <3>2 DEF Alike
    <3> QED
      BY <1>0, <1>2, <2>5, <3>2, <3>3, <3>4 DEF Applied, Closed, t
  <2> QED
    BY <2>4, <2>5
<1> QED
  BY <1>1, <1>2

(***************************************************************************)
(* applyAIRunEvent, for every kind of event.                               *)
(***************************************************************************)
LEMMA EventApplied ==
    ASSUME LogOK, NEW s \in Ui, NEW n \in 1..Len(log), NEW kind \in Kinds
    PROVE  LET t == ApplyEvent(s, n, kind) IN
           /\ Applied(s, t, n, kind)
           /\ kind = "turn" /\ log[n] = "turn" => Showing(t, TurnText(n))
<1> DEFINE t == ApplyEvent(s, n, kind)
<1>0. n \in 1..MaxEvents /\ n \in 0..Len(log)
  BY AIRunEventsAssumption DEF LogOK
<1>1. CASE kind = "input"
  <2>1. PICK b : b = Busy(Ensure(s))
    OBVIOUS
  <2>2. b \in Ui /\ Alike(s, b) /\ Keeps(s, b)
    BY <2>1, EnsureRow, Settled, Chain
  <2>3. t = [b EXCEPT !.sending = TRUE]
    BY <1>1, <2>1 DEF ApplyEvent, Busy, Ends, Failures
  <2>4. t \in Ui /\ Alike(b, t) /\ Keeps(b, t)
    BY <2>2, <2>3 DEF Ui, Alike, SameReads, Keeps, Showing, Shown
  <2>5. t \in Ui /\ Alike(s, t) /\ Keeps(s, t)
    BY <2>2, <2>4, Chain
  <2> HIDE DEF t
  <2> QED
    BY <1>1, <2>5, AlikeApplied DEF t, Ends, Failures
<1>2. CASE kind = "delta"
  <2>1. t = ApplyDelta(s, n)
    BY <1>2 DEF ApplyEvent, Ends, Failures
  <2> QED
    BY <1>0, <1>2, <2>1, DeltaApplied, AlikeApplied DEF Ends, Failures
<1>3. CASE kind = "turn"
  <2>1. t = ApplyTurn(s, n)
    BY <1>3 DEF ApplyEvent, Ends, Failures
  <2> QED
    BY <1>3, <2>1, TurnApplied, AlikeApplied DEF Ends, Failures
<1>4. CASE kind = "error"
  <2>1. PICK b : b = [s EXCEPT !.lastError = n]
    OBVIOUS
  <2>2. t = Bind(b)
    BY <1>4, <2>1 DEF ApplyEvent, Ends, Failures
  <2>3. /\ b \in Ui /\ SameReads(s, b) /\ Keeps(s, b) /\ b.handled = s.handled
        /\ b.replay = s.replay /\ b.error = s.error /\ b.lastError = n
    BY <1>0, <2>1 DEF Ui, SameReads, Keeps, Showing, Shown
  <2>4. t \in Ui /\ Alike(b, t) /\ Keeps(b, t)
    BY <2>2, <2>3, BindRow
  <2> HIDE DEF t
  <2>5. Keeps(s, t) /\ SameReads(s, t) /\ ReplayOn(s, t)
    BY <2>3, <2>4, Chain, ReplayChain DEF Alike, SameReads
  <2>6. t.lastError = n /\ t.handled = s.handled /\ t.error = s.error
    BY <2>3, <2>4 DEF Alike
  <2> QED
    BY <1>4, <2>4, <2>5, <2>6 DEF Applied, Closed, Ends, Failures, t
<1>5. CASE kind = "canceling"
  <2>1. t = Bind(s)
    BY <1>5 DEF ApplyEvent, Ends, Failures
  <2> QED
    BY <1>5, <2>1, BindRow, AlikeApplied DEF Ends, Failures
<1>6. CASE kind \in Ends
  <2>1. t = ApplyTerminal(s, kind)
    BY <1>6 DEF ApplyEvent, Ends, Failures
  <2> QED
    BY <1>6, <2>1, TerminalApplied DEF Ends, Failures
<1>7. CASE kind \in {"wait", "tool"}
  <2>1. t = Busy(Bind(s))
    BY <1>7 DEF ApplyEvent, Busy, Ends, Failures
  <2>2. t \in Ui /\ Alike(s, t) /\ Keeps(s, t)
    BY <2>1, BindRow, Settled, Chain
  <2> QED
    BY <1>7, <2>2, AlikeApplied DEF Ends, Failures
<1> QED
  BY <1>1, <1>2, <1>3, <1>4, <1>5, <1>6, <1>7 DEF Kinds

(***************************************************************************)
(* applyAIRunControlProjection changes the chat alone.                     *)
(***************************************************************************)
LEMMA ControlApplied ==
    ASSUME LogOK, NEW s \in Ui, NEW kind
    PROVE  LET t == ApplyControl(s, kind) IN t \in Ui /\ Alike(s, t) /\ Keeps(s, t)
BY BindRow, Hydrated, Chain DEF ApplyControl

-----------------------------------------------------------------------------
(* A replay.                                                               *)

(***************************************************************************)
(* The loop over the deltas that a replay held back.                       *)
(***************************************************************************)
LEMMA DeltasApplied ==
    ASSUME LogOK, NEW s \in Ui, NEW held \in Text
    PROVE  LET t == ApplyDeltas(s, held) IN t \in Ui /\ Alike(s, t) /\ Keeps(s, t)
<1> DEFINE n == Len(held)
           Step(t, i) == ApplyDelta(t, held[i])
           Loop(f, m) == f = [i \in 0..m |-> IF i = 0 THEN s ELSE Step(f[i - 1], i)]
           after == CHOOSE f : Loop(f, n)
           E == {m \in 0..n : \E f : Loop(f, m)}
           T == {i \in 0..n : after[i] \in Ui /\ Alike(s, after[i]) /\ Keeps(s, after[i])}
<1> n \in Nat /\ \A i \in 1..n : held[i] \in 1..MaxEvents
  BY TextElements
<1>1. ApplyDeltas(s, held) = after[n]
  BY DEF ApplyDeltas, Steps
<1>2. \A t \in Ui, i \in 1..n :
          Step(t, i) \in Ui /\ Alike(t, Step(t, i)) /\ Keeps(t, Step(t, i))
  BY DeltaApplied
<1> HIDE DEF Step, n
<1>3. 0 \in E
  <2>1. Loop([i \in 0..0 |-> s], 0)
    OBVIOUS
  <2> HIDE DEF Loop
  <2> QED
    BY <2>1
<1>4. \A m \in 1..n : m - 1 \in E => m \in E
  <2> SUFFICES ASSUME NEW m \in 1..n, m - 1 \in E PROVE m \in E
    OBVIOUS
  <2>1. PICK f : Loop(f, m - 1)
    OBVIOUS
  <2> DEFINE g == [i \in 0..m |-> IF i = m THEN Step(f[m - 1], m) ELSE f[i]]
  <2>2. Loop(g, m)
    BY <2>1
  <2> HIDE DEF g, Loop
  <2> QED
    BY <2>2
<1>5. Loop(after, n)
  <2>1. n \in E
    <3> HIDE DEF E
    <3> QED
      BY <1>3, <1>4, UpTo
  <2> HIDE DEF Loop
  <2>2. \E f : Loop(f, n)
    BY <2>1
  <2> QED
    BY <2>2
<1> HIDE DEF after
<1>6. 0 \in T /\ \A i \in 1..n : i - 1 \in T => i \in T
  <2>1. after[0] = s /\ \A i \in 1..n : after[i] = Step(after[i - 1], i)
    BY <1>5
  <2> HIDE DEF Loop
  <2> QED
    BY <1>2, <2>1, Chain
<1>7. n \in T
  <2> HIDE DEF T
  <2> QED
    BY <1>6, UpTo
<1> QED
  BY <1>1, <1>7

\* A replay that has counted every turn before n, or a projection that was live.
Ready(s, n) == s.replay.live \/ TurnsAt(n - 1) \subseteq s.replay.turns

(***************************************************************************)
(* The record of a replay is replaced by one that counts as much.          *)
(***************************************************************************)
LEMMA NewReplayRecord ==
    ASSUME NEW s \in Ui, s.replay # None, NEW r \in Replay,
           s.replay.turns \subseteq r.turns, r.durable = s.replay.durable,
           s.replay.live => r.live,
           NEW t, t = [s EXCEPT !.replay = r]
    PROVE  /\ t \in Ui /\ SameReads(s, t) /\ Keeps(s, t) /\ ReplayOn(s, t) /\ t.replay = r
           /\ t.lastError = s.lastError /\ t.error = s.error /\ t.handled = s.handled
<1>1. r # None
  BY NoneIsNothingElse
<1>2. /\ t \in Ui /\ SameReads(s, t) /\ t.replay = r
      /\ t.lastError = s.lastError /\ t.error = s.error /\ t.handled = s.handled
      /\ t.rows = s.rows /\ t.row = s.row /\ t.done = s.done
  BY DEF Ui, SameReads
<1>3. Keeps(s, t)
  BY <1>2 DEF Keeps, Showing, Shown
<1>4. ReplayOn(s, t)
  BY <1>1, <1>2 DEF ReplayOn
<1> QED
  BY <1>2, <1>3, <1>4

(***************************************************************************)
(* flushAIRunReplayDeltas empties what is held back, and shows it if it    *)
(* is not in the ledger's message and nothing was projected live.          *)
(***************************************************************************)
LEMMA Flushed ==
    ASSUME LogOK, NEW s \in Ui, s.replay # None
    PROVE  LET t == Flush(s) IN
           /\ t \in Ui /\ SameReads(s, t) /\ Keeps(s, t) /\ ReplayOn(s, t)
           /\ t.lastError = s.lastError /\ t.error = s.error /\ t.handled = s.handled
<1> DEFINE keep == ~s.replay.live /\ Cardinality(s.replay.turns) >= s.replay.durable
           f == IF keep THEN ApplyDeltas(s, s.replay.held) ELSE s
           r == [s.replay EXCEPT !.held = <<>>]
           t == Flush(s)
<1>1. s.replay \in Replay /\ s.replay.held \in Text
  BY DEF Ui, Replay
<1> HIDE DEF keep
<1>2. f \in Ui /\ Alike(s, f) /\ Keeps(s, f)
  BY <1>1, DeltasApplied, Chain
<1> HIDE DEF f
<1>3. /\ r \in Replay
      /\ r.turns = s.replay.turns /\ r.durable = s.replay.durable /\ r.live = s.replay.live
  BY <1>1, HoldsEmpty DEF Replay
<1>4. f.replay = s.replay
  BY <1>2 DEF Alike
<1>5. t = [f EXCEPT !.replay = r]
  BY <1>4 DEF Flush, f, keep
<1> HIDE DEF r, t
<1>6. /\ t \in Ui /\ SameReads(f, t) /\ Keeps(f, t) /\ ReplayOn(f, t)
      /\ t.lastError = f.lastError /\ t.error = f.error /\ t.handled = f.handled
  BY <1>2, <1>3, <1>4, <1>5, NewReplayRecord
<1>7. Keeps(s, t) /\ ReplayOn(s, t)
  BY <1>2, <1>4, <1>6, Chain, ReplayChain
<1>8. /\ SameReads(s, t)
      /\ t.lastError = s.lastError /\ t.error = s.error /\ t.handled = s.handled
  BY <1>2, <1>6 DEF Alike, SameReads
<1> QED
  BY <1>6, <1>7, <1>8 DEF t

(***************************************************************************)
(* The count of a replay that has seen all turns up to the n-th event is   *)
(* at least their number.                                                  *)
(***************************************************************************)
LEMMA CountedTurns ==
    ASSUME NEW turns \in SUBSET (1..MaxEvents), NEW n, TurnsAt(n) \subseteq turns
    PROVE  /\ Cardinality(TurnsAt(n)) <= Cardinality(turns)
           /\ Cardinality(TurnsAt(n)) \in Nat /\ Cardinality(turns) \in Nat
<1>1. IsFiniteSet(1..MaxEvents)
  <2>1. 1 \in Int /\ MaxEvents \in Int
    BY AIRunEventsAssumption
  <2> QED
    BY <2>1, FS_Interval
<1>2. IsFiniteSet(turns)
  BY <1>1, FS_Subset
<1>3. IsFiniteSet(TurnsAt(n)) /\ Cardinality(TurnsAt(n)) <= Cardinality(turns)
  BY <1>2, FS_Subset
<1> QED
  BY <1>2, <1>3, FS_CardinalityType

(***************************************************************************)
(* A turn that is replayed (applyAIRunReplayEvent on model_completed): it  *)
(* is shown, or left to the ledger's message or to the live projection.    *)
(***************************************************************************)
LEMMA ReplayedTurnApplied ==
    ASSUME LogOK, NEW s \in Ui, s.replay # None, NEW n \in 1..Len(log)
    PROVE  LET t == ApplyReplayedTurn(s, n) IN
           /\ Applied(s, t, n, "turn") /\ n \in t.replay.turns
           /\ log[n] = "turn" /\ Ready(s, n) => Showing(t, TurnText(n)) \/ LeftToShown(t, n)
<1> DEFINE t == ApplyReplayedTurn(s, n)
           r == [s.replay EXCEPT !.turns = @ \cup {n}]
           suppress == r.live \/ Cardinality(r.turns) <= r.durable
           a == IF suppress THEN Bind(s) ELSE ApplyTurn(ApplyDeltas(s, r.held), n)
           last == [r EXCEPT !.held = <<>>]
<1>1. s.replay \in Replay /\ n \in 1..MaxEvents
  BY AIRunEventsAssumption DEF Ui, LogOK
<1>2. /\ r \in Replay /\ r.turns = s.replay.turns \cup {n}
      /\ r.durable = s.replay.durable /\ r.live = s.replay.live
  BY <1>1 DEF Replay
<1>3. suppress <=> (r.live \/ Cardinality(r.turns) <= r.durable)
  OBVIOUS
<1> HIDE DEF r
<1>4. /\ last \in Replay /\ r.held \in Text /\ last.turns = r.turns
      /\ last.durable = r.durable /\ last.live = r.live
  BY <1>2, HoldsEmpty DEF Replay
<1> HIDE DEF suppress, last
<1>5. /\ a \in Ui /\ Alike(s, a) /\ Keeps(s, a)
      /\ ~suppress /\ log[n] = "turn" => Showing(a, TurnText(n))
  <2>1. CASE suppress
    BY <2>1, BindRow
  <2>2. CASE ~suppress
    <3>1. PICK d : d = ApplyDeltas(s, r.held)
      OBVIOUS
    <3>2. d \in Ui /\ Alike(s, d) /\ Keeps(s, d)
      BY <1>4, <3>1, DeltasApplied
    <3>3. a = ApplyTurn(d, n)
      BY <2>2, <3>1
    <3>4. /\ a \in Ui /\ Alike(d, a) /\ Keeps(d, a)
          /\ log[n] = "turn" => Showing(a, TurnText(n))
      BY <3>2, <3>3, TurnApplied
    <3> QED
      BY <3>2, <3>4, Chain
  <2> QED
    BY <2>1, <2>2
<1>6. t = [a EXCEPT !.replay = last]
  BY DEF ApplyReplayedTurn, r, suppress, last
<1> HIDE DEF a, t
<1>7. a.replay = s.replay
  BY <1>5 DEF Alike
<1>8. /\ t \in Ui /\ SameReads(a, t) /\ Keeps(a, t) /\ ReplayOn(a, t) /\ t.replay = last
      /\ t.lastError = a.lastError /\ t.error = a.error /\ t.handled = a.handled
  BY <1>2, <1>4, <1>5, <1>6, <1>7, NewReplayRecord
<1>9. Applied(s, t, n, "turn")
  <2>1. Keeps(s, t) /\ ReplayOn(s, t)
    BY <1>5, <1>7, <1>8, Chain, ReplayChain
  <2>2. /\ SameReads(s, t)
        /\ t.lastError = s.lastError /\ t.error = s.error /\ t.handled = s.handled
    BY <1>5, <1>8 DEF Alike, SameReads
  <2> QED
    BY <1>8, <2>1, <2>2 DEF Applied, Closed, Ends, Failures
<1>10. n \in t.replay.turns /\ t.replay # None
  BY <1>2, <1>4, <1>8, NoneIsNothingElse
<1>11. ASSUME log[n] = "turn", Ready(s, n)
       PROVE  Showing(t, TurnText(n)) \/ LeftToShown(t, n)
  <2>1. CASE ~suppress
    <3>1. TurnText(n) \in Text \ {<<>>}
      BY <1>11, TurnTextType
    <3> QED
      BY <1>5, <1>8, <1>11, <2>1, <3>1 DEF Keeps
  <2>2. CASE suppress /\ t.replay.live
    BY <1>10, <2>2 DEF LeftToShown
  <2>3. CASE suppress /\ ~t.replay.live
    <3>1. Cardinality(r.turns) <= r.durable /\ TurnsAt(n - 1) \subseteq s.replay.turns
      BY <1>2, <1>3, <1>4, <1>8, <1>11, <2>3 DEF Ready
    <3>2. TurnsAt(n) \subseteq r.turns
      BY <1>2, <3>1 DEF TurnsAt
    <3>3. r.turns \in SUBSET (1..MaxEvents) /\ r.durable \in Nat
      BY <1>2, AIRunEventsAssumption DEF Replay
    <3>4. /\ Cardinality(TurnsAt(n)) <= Cardinality(r.turns)
          /\ Cardinality(TurnsAt(n)) \in Nat /\ Cardinality(r.turns) \in Nat
      BY <3>2, <3>3, CountedTurns
    <3>5. Cardinality(TurnsAt(n)) <= t.replay.durable
      <4>1. \A x, y, z \in Nat : x <= y /\ y <= z => x <= z
        OBVIOUS
      <4> QED
        BY <1>4, <1>8, <3>1, <3>3, <3>4, <4>1
    <3> QED
      BY <1>10, <3>5 DEF LeftToShown
  <2> QED
    BY <2>1, <2>2, <2>3
<1> QED
  BY <1>9, <1>10, <1>11 DEF t

(***************************************************************************)
(* applyAIRunReplayEvent, for every kind of event.                         *)
(***************************************************************************)
LEMMA ReplayApplied ==
    ASSUME LogOK, NEW s \in Ui, s.replay # None, NEW n \in 1..Len(log), NEW kind \in Kinds
    PROVE  LET t == ApplyReplay(s, n, kind) IN
           /\ Applied(s, t, n, kind)
           /\ kind = "turn" => n \in t.replay.turns
           /\ kind = "turn" /\ log[n] = "turn" /\ Ready(s, n)
                  => Showing(t, TurnText(n)) \/ LeftToShown(t, n)
<1> DEFINE t == ApplyReplay(s, n, kind)
<1>1. CASE kind = "delta"
  <2>1. PICK r : r = [s.replay EXCEPT !.held = Append(@, n)]
    OBVIOUS
  <2>2. s.replay \in Replay /\ s.replay.held \in Text /\ n \in 1..MaxEvents
    BY AIRunEventsAssumption DEF Ui, Replay, LogOK
  <2>3. Append(s.replay.held, n) \in Text
    BY <2>2 DEF Text
  <2>4. /\ r \in Replay /\ r.turns = s.replay.turns /\ r.durable = s.replay.durable
        /\ r.live = s.replay.live
    BY <2>1, <2>2, <2>3 DEF Replay
  <2>5. t = [s EXCEPT !.replay = r]
    BY <1>1, <2>1 DEF ApplyReplay, Ends, Failures
  <2> HIDE DEF t
  <2>6. /\ t \in Ui /\ SameReads(s, t) /\ Keeps(s, t) /\ ReplayOn(s, t)
        /\ t.lastError = s.lastError /\ t.error = s.error /\ t.handled = s.handled
    BY <2>4, <2>5, NewReplayRecord
  <2> QED
    BY <1>1, <2>6 DEF Applied, Closed, Ends, Failures, t
<1>2. CASE kind = "turn"
  <2>1. t = ApplyReplayedTurn(s, n)
    BY <1>2 DEF ApplyReplay, Ends, Failures
  <2> QED
    BY <1>2, <2>1, ReplayedTurnApplied
<1>3. CASE kind \in Ends
  <2>0. kind # "turn" /\ kind # "error"
    BY <1>3 DEF Ends, Failures
  <2>1. t = ApplyEvent(Flush(s), n, kind)
    BY <1>3 DEF ApplyReplay, Ends, Failures
  <2>2. PICK f : f = Flush(s)
    OBVIOUS
  <2>3. /\ f \in Ui /\ SameReads(s, f) /\ Keeps(s, f) /\ ReplayOn(s, f)
        /\ f.lastError = s.lastError /\ f.error = s.error /\ f.handled = s.handled
    BY <2>2, Flushed
  <2>4. Applied(f, t, n, kind)
    BY <2>1, <2>2, <2>3, EventApplied
  <2> HIDE DEF t
  <2>5. Keeps(s, t) /\ ReplayOn(s, t)
    BY <2>3, <2>4, Chain, ReplayChain DEF Applied
  <2>6. SameReads(s, t) /\ t.lastError = s.lastError /\ Closed(s, t, kind)
    BY <2>0, <2>3, <2>4 DEF Applied, SameReads, Closed
  <2> QED
    BY <2>0, <2>4, <2>5, <2>6 DEF Applied, t
<1>4. CASE kind = "error"
  <2>1. t = ApplyEvent(s, n, kind)
    BY <1>4 DEF ApplyReplay, Ends, Failures
  <2> QED
    BY <1>4, <2>1, EventApplied
<1>5. CASE kind \in {"input", "wait", "tool", "canceling"}
  <2>1. t = ApplyControl(s, kind)
    BY <1>5 DEF ApplyReplay, Ends, Failures
  <2>2. kind \notin Ends \cup {"error", "turn"}
    BY <1>5 DEF Ends, Failures
  <2> QED
    BY <2>1, <2>2, ControlApplied, AlikeApplied
<1> QED
  BY <1>1, <1>2, <1>3, <1>4, <1>5 DEF Kinds

-----------------------------------------------------------------------------
(* accept.                                                                 *)

(***************************************************************************)
(* An accepted event is projected, live or by a replay.                    *)
(***************************************************************************)
LEMMA Projected ==
    ASSUME LogOK, NEW s \in Ui, NEW n \in 1..Len(log), NEW kind \in Kinds,
           NEW replay \in BOOLEAN, replay => s.replay # None,
           NEW t, t = Project(s, n, kind, replay)
    PROVE  /\ Applied(s, t, n, kind)
           /\ kind = "turn" /\ s.replay # None =>
                  IF replay THEN n \in t.replay.turns ELSE t.replay.live
           /\ kind = "turn" /\ log[n] = "turn" /\ (replay => Ready(s, n))
                  => Showing(t, TurnText(n)) \/ LeftToShown(t, n)
<1>1. CASE replay
  <2>1. t = ApplyReplay(s, n, kind)
    BY <1>1 DEF Project
  <2> QED
    BY <1>1, <2>1, ReplayApplied
<1>2. CASE ~replay
  <2>1. t = ApplyEvent(SeenLive(s, kind), n, kind)
    BY <1>2 DEF Project
  <2>2. PICK b : b = SeenLive(s, kind)
    OBVIOUS
  <2>3. /\ b \in Ui /\ SameReads(s, b) /\ Keeps(s, b) /\ ReplayOn(s, b)
        /\ b.lastError = s.lastError /\ b.error = s.error /\ b.handled = s.handled
        /\ kind = "turn" /\ s.replay # None => b.replay.live
    <3>1. CASE s.replay # None /\ kind \in {"delta", "turn"}
      <4>1. PICK r : r = [s.replay EXCEPT !.live = TRUE]
        OBVIOUS
      <4>2. /\ r \in Replay /\ r.live /\ r.turns = s.replay.turns
            /\ r.durable = s.replay.durable
        BY <3>1, <4>1 DEF Ui, Replay
      <4>3. b = [s EXCEPT !.replay = r]
        BY <3>1, <2>2, <4>1 DEF SeenLive
      <4> QED
        BY <3>1, <4>2, <4>3, NewReplayRecord
    <3>2. CASE ~(s.replay # None /\ kind \in {"delta", "turn"})
      <4>1. b = s
        BY <2>2, <3>2 DEF SeenLive
      <4> QED
        BY <3>2, <4>1, Chain, ReplayChain DEF SameReads
    <3> QED
      BY <3>1, <3>2
  <2>4. /\ Applied(b, t, n, kind)
        /\ kind = "turn" /\ log[n] = "turn" => Showing(t, TurnText(n))
    BY <2>1, <2>2, <2>3, EventApplied
  <2>5. Keeps(s, t) /\ ReplayOn(s, t)
    BY <2>3, <2>4, Chain, ReplayChain DEF Applied
  <2>6. /\ SameReads(s, t) /\ Closed(s, t, kind)
        /\ t.lastError = IF kind = "error" THEN n ELSE s.lastError
    BY <2>3, <2>4 DEF Applied, SameReads, Closed
  <2>7. Applied(s, t, n, kind)
    BY <2>4, <2>5, <2>6 DEF Applied
  <2>8. kind = "turn" /\ s.replay # None => t.replay.live
    BY <2>3, <2>4 DEF Applied, ReplayOn
  <2> QED
    BY <1>2, <2>4, <2>7, <2>8
<1> QED
  BY <1>1, <1>2

(***************************************************************************)
(* An end stops the polling and empties the gap buffer.                    *)
(***************************************************************************)
LEMMA Polled ==
    ASSUME LogOK, NEW s \in Ui, NEW kind
    PROVE  LET t == Polling(s, kind) IN
           /\ t \in Ui /\ Keeps(s, t)
           /\ t.cursor = s.cursor /\ t.over = s.over /\ t.read = s.read /\ t.replay = s.replay
           /\ t.lastError = s.lastError /\ t.error = s.error /\ t.handled = s.handled
<1> DEFINE t == Polling(s, kind)
<1>1. CASE kind \in Ends
  <2>1. t = [s EXCEPT !.timer = FALSE, !.pending = {}]
    BY <1>1 DEF Polling
  <2> HIDE DEF t
  <2> QED
    BY <2>1 DEF Ui, Keeps, Showing, Shown, t
<1>2. CASE kind \notin Ends /\ kind # "wait"
  <2>1. t = [s EXCEPT !.timer = TRUE]
    BY <1>2 DEF Polling
  <2> HIDE DEF t
  <2> QED
    BY <2>1 DEF Ui, Keeps, Showing, Shown, t
<1>3. CASE kind \notin Ends /\ kind = "wait"
  BY <1>3, Chain DEF Polling
<1> QED
  BY <1>1, <1>2, <1>3

\* The cursor stands behind the run's end only if the projection is over, and
\* at no other place if the run fits in a page: no end is made of a snapshot then.
EndSeen(s) ==
    /\ s.cursor > 0 /\ s.cursor = Len(log) /\ log[s.cursor] \in Ends => s.over
    /\ Len(log) <= PageSize /\ s.over => s.cursor > 0 /\ log[s.cursor] \in Ends

\* The last error that was projected is one before the cursor, and in a run that
\* fits in a page the last such one.
ErrorSeen(s) ==
    /\ s.lastError <= s.cursor
    /\ s.lastError # 0 => log[s.lastError] = "error"
    /\ Len(log) <= PageSize => \A i \in 1..s.cursor : log[i] = "error" => i <= s.lastError

\* An end is handled only when the run has ended, and a failure with its cause.
Caused(s) ==
    s.handled =>
        /\ s.over /\ log # <<>> /\ log[Len(log)] \in Ends
        /\ log[Len(log)] \in Failures =>
               \/ s.error = Cause
               \/ Outlived(s.error) /\ (Cause = Len(log) \/ Len(log) > PageSize)

\* Every turn before the cursor that a replay has not counted was there when its
\* page was asked for, unless events were projected live since.
Tallied(s) ==
    \/ s.over \/ s.replay.live
    \/ \A m \in TurnsAt(s.cursor) : m \in s.replay.turns \/ m <= s.read.asked

\* A read asks for events no later than the next one, and a replay has counted
\* the turns before them.
ReadSound(s) ==
    s.read # None =>
        /\ s.read.after <= s.read.asked /\ s.read.asked <= Len(log)
        /\ s.over \/ s.read.after <= s.cursor
        /\ s.read.replay => /\ s.replay # None
                            /\ TurnsAt(s.read.after) \subseteq s.replay.turns
                            /\ Tallied(s)

\* What holds of the panel's state whatever it has heard and read so far.
Sound(s) == s \in Ui /\ EndSeen(s) /\ ErrorSeen(s) /\ Caused(s) /\ ReadSound(s)

(***************************************************************************)
(* What Sound is about does not change, or a read is given up.             *)
(***************************************************************************)
LEMMA SoundAside ==
    ASSUME NEW s, Sound(s), NEW t, t \in Ui, t.cursor = s.cursor, t.over = s.over,
           t.lastError = s.lastError, t.error = s.error, t.handled = s.handled,
           \/ t.read = s.read /\ (s.replay # None => ReplayOn(s, t))
           \/ t.read = None
    PROVE  Sound(t)
<1>1. EndSeen(t) /\ ErrorSeen(t) /\ Caused(t)
  BY DEF Sound, EndSeen, ErrorSeen, Caused
<1>2. ASSUME s.read # None, t.read = s.read, s.read.replay, ReplayOn(s, t)
      PROVE  /\ t.replay # None /\ TurnsAt(t.read.after) \subseteq t.replay.turns
             /\ Tallied(t)
  <2>1. s.replay # None /\ TurnsAt(s.read.after) \subseteq s.replay.turns /\ Tallied(s)
    BY <1>2 DEF Sound, ReadSound
  <2> QED
    BY <1>2, <2>1 DEF ReplayOn, Tallied
<1>3. ReadSound(t)
  BY <1>2 DEF Sound, ReadSound
<1> QED
  BY <1>1, <1>3 DEF Sound

(***************************************************************************)
(* A read of the ledger is asked for, unless one is under way.             *)
(***************************************************************************)
LEMMA Recovered ==
    ASSUME LogOK, NEW s, Sound(s), NEW replay \in BOOLEAN, replay => s.replay # None,
           NEW t, t = Recover(s, replay)
    PROVE  /\ Sound(t) /\ Keeps(s, t)
           /\ t.cursor = s.cursor /\ t.over = s.over /\ t.replay = s.replay
           /\ s.read # None => t.read = s.read
<1>0. s \in Ui
  BY DEF Sound
<1>1. CASE s.read # None \/ s.timer
  BY <1>1, Chain DEF Recover
<1>2. CASE s.read = None /\ ~s.timer
  <2> DEFINE after == IF replay THEN 0 ELSE s.cursor
             read == [replay |-> replay, asked |-> Len(log), after |-> after]
  <2>1. t = [s EXCEPT !.read = read]
    BY <1>2 DEF Recover
  <2>2. after \in 0..Len(log) /\ after <= s.cursor /\ (replay => after = 0)
    BY <1>0 DEF Ui, LogOK
  <2> HIDE DEF after
  <2>3. /\ read \in Read /\ read # None
        /\ read.after = after /\ read.asked = Len(log) /\ read.replay = replay
    BY <2>2, AIRunEventsAssumption, NoneIsNothingElse DEF Read, LogOK
  <2> HIDE DEF read
  <2>4. /\ t \in Ui /\ t.read = read /\ t.cursor = s.cursor /\ t.over = s.over
        /\ t.replay = s.replay /\ t.lastError = s.lastError /\ t.error = s.error
        /\ t.rows = s.rows /\ t.row = s.row /\ t.done = s.done /\ t.handled = s.handled
    BY <1>0, <2>1, <2>3 DEF Ui
  <2>5. Keeps(s, t)
    BY <2>4 DEF Keeps, Showing, Shown
  <2>6. EndSeen(t) /\ ErrorSeen(t) /\ Caused(t)
    BY <2>4 DEF Sound, EndSeen, ErrorSeen, Caused
  <2>7. ReadSound(t)
    <3>1. t.read.after <= t.read.asked /\ t.read.asked <= Len(log)
      BY <2>2, <2>3, <2>4 DEF LogOK
    <3>2. t.read.after <= t.cursor
      BY <2>2, <2>3, <2>4
    <3>3. replay => TurnsAt(t.read.after) = {}
      BY <2>2, <2>3, <2>4 DEF TurnsAt
    <3>4. \A m \in TurnsAt(t.cursor) : m <= t.read.asked
      BY <1>0, <2>3, <2>4 DEF TurnsAt, Ui, LogOK
    <3> QED
      BY <2>3, <2>4, <3>1, <3>2, <3>3, <3>4 DEF ReadSound, Tallied
  <2>8. Sound(t)
    BY <2>4, <2>6, <2>7 DEF Sound
  <2> QED
    BY <1>2, <2>4, <2>5, <2>8
<1> QED
  BY <1>1, <1>2

\* The event can be what accept is given: one of the ledger, or the end that is
\* made of a snapshot of a run longer than a page.
Given(n, kind) ==
    \/ kind = log[n]
    \/ kind \in Ends /\ kind = log[Len(log)] /\ Len(log) > PageSize

\* The number of a turn is next: a replay of it counts all turns before it.
TurnReady(s, n, kind, replay) == replay /\ ~s.over /\ kind = "turn" => Ready(s, n)

\* What accept makes of an event: it may take the number of the event, it never
\* forgets what is shown, and it abandons neither the read nor the replay.
Accepted(s, t, n, kind, replay) ==
    /\ Sound(t) /\ Keeps(s, t) /\ ReplayOn(s, t)
    /\ s.read # None => t.read = s.read
    /\ \/ t.cursor = s.cursor /\ t.over = s.over /\ (s.over \/ n # s.cursor + 1)
       \/ t.cursor = n /\ n = s.cursor + 1 /\ ~s.over /\ (t.over <=> kind \in Ends)
    /\ replay /\ kind = "turn" /\ (s.over \/ n <= s.cursor + 1) => n \in t.replay.turns
    /\ t.cursor # s.cursor /\ kind = "turn" /\ log[n] = "turn" /\ TurnReady(s, n, kind, replay)
           => Showing(t, TurnText(n)) \/ LeftToShown(t, n)

(***************************************************************************)
(* A duplicate or late event: only a replay looks at it.                   *)
(***************************************************************************)
LEMMA LateAccepted ==
    ASSUME LogOK, NEW s, Sound(s), NEW n \in 1..Len(log), NEW kind \in Kinds,
           NEW replay \in BOOLEAN, replay => s.replay # None,
           s.over \/ n <= s.cursor,
           NEW t, t = Accept(s, n, kind, replay)
    PROVE  Accepted(s, t, n, kind, replay)
<1>0. s \in Ui /\ n \in 1..MaxEvents /\ n \in Nat /\ s.cursor \in Nat
  BY AIRunEventsAssumption DEF Sound, Ui, LogOK
<1>1. s.over \/ n # s.cursor + 1
  BY <1>0
<1>2. CASE ~replay
  <2>1. t = s
    BY <1>2 DEF Accept
  <2> QED
    BY <1>1, <1>2, <2>1, Chain, ReplayChain DEF Accepted
<1>3. CASE replay
  <2>1. PICK b : b = IF kind = "turn" THEN [s EXCEPT !.replay.turns = @ \cup {n}] ELSE s
    OBVIOUS
  <2>2. t = ApplyControl(b, kind)
    BY <1>3, <2>1 DEF Accept
  <2>3. /\ b \in Ui /\ SameReads(s, b) /\ Keeps(s, b) /\ ReplayOn(s, b)
        /\ b.lastError = s.lastError /\ b.error = s.error /\ b.handled = s.handled
        /\ kind = "turn" => n \in b.replay.turns
    <3>1. CASE kind = "turn"
      <4>1. PICK r : r = [s.replay EXCEPT !.turns = @ \cup {n}]
        OBVIOUS
      <4>2. /\ r \in Replay /\ r.turns = s.replay.turns \cup {n}
            /\ r.durable = s.replay.durable /\ r.live = s.replay.live
        BY <1>0, <1>3, <4>1 DEF Ui, Replay
      <4>3. b = [s EXCEPT !.replay = r]
        BY <2>1, <3>1, <4>1
      <4>4. /\ b \in Ui /\ SameReads(s, b) /\ Keeps(s, b) /\ ReplayOn(s, b) /\ b.replay = r
            /\ b.lastError = s.lastError /\ b.error = s.error /\ b.handled = s.handled
        BY <1>0, <1>3, <4>2, <4>3, NewReplayRecord
      <4> QED
        BY <4>2, <4>4
    <3>2. CASE kind # "turn"
      <4>1. b = s
        BY <2>1, <3>2
      <4> QED
        BY <1>0, <3>2, <4>1, Chain, ReplayChain DEF SameReads
    <3> QED
      BY <3>1, <3>2
  <2>4. t \in Ui /\ Alike(b, t) /\ Keeps(b, t)
    BY <2>2, <2>3, ControlApplied
  <2>5. Keeps(s, t) /\ ReplayOn(s, t)
    BY <2>3, <2>4, Chain, ReplayChain DEF Alike
  <2>6. /\ t.cursor = s.cursor /\ t.over = s.over /\ t.read = s.read
        /\ t.lastError = s.lastError /\ t.error = s.error /\ t.handled = s.handled
        /\ t.replay = b.replay
    BY <2>3, <2>4 DEF Alike, SameReads
  <2>7. Sound(t)
    BY <2>4, <2>5, <2>6, SoundAside
  <2> QED
    BY <1>1, <2>3, <2>5, <2>6, <2>7 DEF Accepted
<1> QED
  BY <1>2, <1>3

(***************************************************************************)
(* An event ahead of a gap is kept, and the ledger is asked.               *)
(***************************************************************************)
LEMMA EarlyAccepted ==
    ASSUME LogOK, NEW s, Sound(s), NEW n \in 1..Len(log), NEW kind \in Kinds,
           NEW replay \in BOOLEAN, replay => s.replay # None,
           ~s.over, n > s.cursor + 1,
           NEW t, t = Accept(s, n, kind, replay)
    PROVE  Accepted(s, t, n, kind, replay)
<1>0. s \in Ui /\ n \in Nat /\ s.cursor \in Nat
  BY DEF Sound, Ui, LogOK
<1>1. PICK p : p = s.pending \cup {n}
  OBVIOUS
<1>2. PICK b : b = [s EXCEPT !.pending = p]
  OBVIOUS
<1>3. t = Recover(b, replay)
  BY <1>0, <1>1, <1>2 DEF Accept
<1>4. p \in SUBSET (1..Len(log))
  BY <1>0, <1>1 DEF Ui
<1>5. /\ b \in Ui /\ b.cursor = s.cursor /\ b.over = s.over /\ b.read = s.read
      /\ b.replay = s.replay /\ b.lastError = s.lastError /\ b.error = s.error
      /\ b.rows = s.rows /\ b.row = s.row /\ b.done = s.done /\ b.handled = s.handled
  BY <1>0, <1>2, <1>4 DEF Ui
<1>6. Sound(b)
  BY <1>5, SoundAside, ReplayChain
<1>7. Keeps(s, b)
  BY <1>5 DEF Keeps, Showing, Shown
<1>8. /\ Sound(t) /\ Keeps(b, t)
      /\ t.cursor = b.cursor /\ t.over = b.over /\ t.replay = b.replay
      /\ b.read # None => t.read = b.read
  BY <1>3, <1>5, <1>6, Recovered
<1>9. Keeps(s, t) /\ ReplayOn(s, t)
  BY <1>5, <1>7, <1>8, Chain, ReplayChain
<1>10. ~(n <= s.cursor + 1)
  BY <1>0
<1>11. n # s.cursor + 1
  BY <1>0
<1> QED
  BY <1>5, <1>8, <1>9, <1>10, <1>11 DEF Accepted

(***************************************************************************)
(* A failure is shown with its cause, or with an error the run got over.   *)
(***************************************************************************)
LEMMA CauseFound ==
    ASSUME LogOK, NEW s, Sound(s), NEW n \in 1..Len(log), n = s.cursor + 1,
           NEW kind \in Failures, kind = log[Len(log)],
           Given(n, kind),
           NEW error, error = IF s.lastError # 0 THEN s.lastError ELSE Cause
    PROVE  \/ error = Cause
           \/ Outlived(error) /\ (Cause = Len(log) \/ Len(log) > PageSize)
<1>0. /\ s \in Ui /\ s.cursor \in Nat /\ Len(log) \in Nat /\ s.lastError \in Nat
      /\ PageSize \in Nat /\ DOMAIN log = 1..Len(log)
  BY AIRunEventsAssumption DEF Sound, Ui, LogOK
<1>1. n <= Len(log) /\ s.cursor < Len(log)
  BY <1>0
<1>2. PICK cause \in Nat : /\ cause = Cause
                          /\ \/ cause = Len(log)
                             \/ cause = Len(log) - 1 /\ cause > 0 /\ log[cause] = "error"
  <2>1. Cause \in Nat
    BY <1>0, CauseType
  <2>2. Cause = Len(log) \/ (Cause = Len(log) - 1 /\ Cause > 0 /\ log[Cause] = "error")
    <3>1. CASE Len(log) > 1 /\ log[Len(log)] = "failed" /\ log[Len(log) - 1] = "error"
      <4>1. Cause = Len(log) - 1
        BY <3>1 DEF Cause
      <4>2. log[Cause] = "error"
        BY <3>1, <4>1, Zenon
      <4>3. Cause > 0
        BY <1>0, <3>1, <4>1
      <4> QED
        BY <4>1, <4>2, <4>3
    <3>2. CASE ~(Len(log) > 1 /\ log[Len(log)] = "failed" /\ log[Len(log) - 1] = "error")
      BY <3>2, Zenon DEF Cause
    <3> QED
      BY <3>1, <3>2
  <2> QED
    BY <2>1, <2>2
<1>3. CASE s.lastError = 0
  BY <1>3
<1>4. CASE s.lastError # 0
  <2>1. /\ error = s.lastError /\ error \in Nat /\ 0 < error /\ error <= s.cursor
        /\ error \in DOMAIN log /\ log[error] = "error"
    BY <1>0, <1>1, <1>4 DEF Sound, ErrorSeen
  <2>2. error < cause => Outlived(error)
    BY <1>2, <2>1 DEF Outlived
  <2>3. CASE cause = Len(log)
    <3>1. error < cause
      BY <1>0, <1>1, <2>1, <2>3
    <3> QED
      BY <1>2, <2>2, <2>3, <3>1
  <2>4. CASE cause # Len(log)
    <3>1. cause = Len(log) - 1 /\ log[cause] = "error" /\ cause > 0
      BY <1>2, <2>4
    <3>2. error <= cause
      BY <1>0, <1>1, <2>1, <3>1
    <3>3. CASE Len(log) > PageSize
      <4>1. error = cause \/ error < cause
        BY <2>1, <3>2
      <4> QED
        BY <1>2, <2>2, <3>3, <4>1
    <3>4. CASE Len(log) <= PageSize
      <4>1. kind = log[n] /\ kind \in Ends
        BY <1>0, <3>4 DEF Given, Ends
      <4>2. n = Len(log)
        BY <4>1, LogOrder
      <4>3. cause \in 1..s.cursor
        BY <1>0, <3>1, <4>2
      <4>4. cause <= s.lastError
        BY <3>1, <3>4, <4>3 DEF Sound, ErrorSeen
      <4>5. error = cause
        BY <2>1, <3>2, <4>4
      <4> QED
        BY <1>2, <4>5
    <3> QED
      BY <1>0, <3>3, <3>4
  <2> QED
    BY <2>3, <2>4
<1> QED
  BY <1>0, <1>3, <1>4

(***************************************************************************)
(* The next event, or the end that a snapshot makes up for it.             *)
(***************************************************************************)
LEMMA NextAccepted ==
    ASSUME LogOK, NEW s, Sound(s), NEW n \in 1..Len(log), NEW kind \in Kinds,
           NEW replay \in BOOLEAN, replay => s.replay # None,
           ~s.over, n = s.cursor + 1, Given(n, kind),
           NEW t, t = Accept(s, n, kind, replay)
    PROVE  Accepted(s, t, n, kind, replay)
<1>0. /\ s \in Ui /\ n \in Nat /\ s.cursor \in Nat /\ Len(log) \in Nat /\ PageSize \in Nat
      /\ s.lastError \in Nat
  BY AIRunEventsAssumption DEF Sound, Ui, LogOK
<1> DEFINE over == kind \in Ends
<1>1. PICK b : b = [s EXCEPT !.cursor = n, !.over = over]
  OBVIOUS
<1>2. PICK p : p = Project(b, n, kind, replay)
  OBVIOUS
<1>3. t = Polling(p, kind)
  BY <1>0, <1>1, <1>2 DEF Accept
<1>4. /\ b \in Ui /\ b.cursor = n /\ (b.over <=> kind \in Ends) /\ b.read = s.read
      /\ b.replay = s.replay /\ b.lastError = s.lastError /\ b.error = s.error
      /\ b.rows = s.rows /\ b.row = s.row /\ b.done = s.done /\ b.handled = s.handled
  <2>1. over \in BOOLEAN
    OBVIOUS
  <2>2. over <=> kind \in Ends
    OBVIOUS
  <2> HIDE DEF over
  <2>3. s \in Ui /\ n \in 0..Len(log)
    BY <1>0
  <2>4. b \in Ui
    BY <1>1, <2>1, <2>3 DEF Ui
  <2>5. b.over = over
    BY <1>1, <2>3 DEF Ui
  <2>6. /\ b.cursor = n /\ b.read = s.read
        /\ b.replay = s.replay /\ b.lastError = s.lastError /\ b.error = s.error
        /\ b.rows = s.rows /\ b.row = s.row /\ b.done = s.done /\ b.handled = s.handled
    BY <1>0, <1>1 DEF Ui
  <2> QED
    BY <2>2, <2>4, <2>5, <2>6
<1>5. Keeps(s, b)
  BY <1>4 DEF Keeps, Showing, Shown
<1>6. /\ Applied(b, p, n, kind)
      /\ kind = "turn" /\ b.replay # None =>
             IF replay THEN n \in p.replay.turns ELSE p.replay.live
      /\ kind = "turn" /\ log[n] = "turn" /\ (replay => Ready(b, n))
             => Showing(p, TurnText(n)) \/ LeftToShown(p, n)
  BY <1>2, <1>4, Projected
<1>7. /\ t \in Ui /\ Keeps(p, t)
      /\ t.cursor = p.cursor /\ t.over = p.over /\ t.read = p.read /\ t.replay = p.replay
      /\ t.lastError = p.lastError /\ t.error = p.error /\ t.handled = p.handled
  BY <1>3, <1>6, Polled DEF Applied
<1>8. Keeps(s, t) /\ ReplayOn(s, t)
  BY <1>4, <1>5, <1>6, <1>7, Chain, ReplayChain DEF Applied
<1>9. /\ t.cursor = n /\ (t.over <=> kind \in Ends) /\ t.read = s.read
      /\ t.lastError = IF kind = "error" THEN n ELSE s.lastError
  BY <1>4, <1>6, <1>7 DEF Applied, SameReads
<1>10. Closed(s, t, kind)
  BY <1>4, <1>6, <1>7 DEF Applied, Closed
<1>11. EndSeen(t)
  <2>1. t.cursor = Len(log) /\ log[t.cursor] \in Ends => t.over
    BY <1>9 DEF Given
  <2>2. Len(log) <= PageSize /\ t.over => t.cursor > 0 /\ log[t.cursor] \in Ends
    BY <1>0, <1>9 DEF Given
  <2> QED
    BY <2>1, <2>2 DEF EndSeen
<1>12. ErrorSeen(t)
  <2>1. CASE kind = "error"
    <3>1. kind = log[n]
      BY <2>1 DEF Given, Ends, Failures
    <3> QED
      BY <1>0, <1>9, <2>1, <3>1 DEF ErrorSeen
  <2>2. CASE kind # "error"
    <3>1. t.lastError = s.lastError /\ t.cursor = s.cursor + 1
      BY <1>9, <2>2
    <3>2. Len(log) <= PageSize => log[n] # "error"
      BY <1>0, <2>2 DEF Given
    <3> QED
      BY <1>0, <3>1, <3>2 DEF Sound, ErrorSeen
  <2> QED
    BY <2>1, <2>2
<1>13. Caused(t)
  <2>1. ~s.handled
    BY DEF Sound, Caused
  <2>2. SUFFICES ASSUME t.handled PROVE Caused(t)
    BY DEF Caused
  <2>3. kind \in Ends
    BY <1>10, <2>1, <2>2 DEF Closed
  <2>4. kind = log[Len(log)] /\ log # <<>>
    <3>1. log # <<>>
      BY <1>0 DEF LogOK
    <3>2. CASE kind = log[n]
      BY <2>3, <3>1, <3>2, LogOrder
    <3>3. CASE kind # log[n]
      BY <3>1, <3>3 DEF Given
    <3> QED
      BY <3>2, <3>3
  <2>5. ASSUME kind \in Failures
        PROVE  \/ t.error = Cause
               \/ Outlived(t.error) /\ (Cause = Len(log) \/ Len(log) > PageSize)
    <3>1. t.error = IF s.lastError # 0 THEN s.lastError ELSE Cause
      BY <1>10, <2>1, <2>3, <2>5 DEF Closed
    <3> QED
      BY <2>4, <2>5, <3>1, CauseFound
  <2> QED
    BY <1>9, <2>3, <2>4, <2>5 DEF Caused
<1>14. ReadSound(t)
  <2> SUFFICES ASSUME t.read # None PROVE ReadSound(t)
    BY DEF ReadSound
  <2>1. /\ s.read # None /\ s.read.after <= s.read.asked /\ s.read.asked <= Len(log)
        /\ s.read.after <= s.cursor /\ s.read.after \in Nat
    BY <1>0, <1>9, AIRunEventsAssumption DEF Sound, ReadSound, Ui, Read
  <2>2. t.read.after <= t.cursor
    BY <1>0, <1>9, <2>1
  <2>3. ASSUME s.read.replay
        PROVE  /\ t.replay # None /\ TurnsAt(t.read.after) \subseteq t.replay.turns
               /\ Tallied(t)
    <3>1. /\ s.replay # None /\ TurnsAt(s.read.after) \subseteq s.replay.turns
          /\ Tallied(s)
      BY <2>1, <2>3 DEF Sound, ReadSound
    <3>2. /\ t.replay # None /\ s.replay.turns \subseteq t.replay.turns
          /\ s.replay.live => t.replay.live
      BY <1>8, <3>1 DEF ReplayOn
    <3>3. ASSUME ~t.over, ~t.replay.live, NEW m \in TurnsAt(t.cursor)
          PROVE  m \in t.replay.turns \/ m <= t.read.asked
      <4>1. CASE m <= s.cursor
        <5>1. m \in TurnsAt(s.cursor)
          BY <1>0, <3>3, <4>1 DEF TurnsAt
        <5> QED
          BY <1>9, <3>1, <3>2, <3>3, <5>1 DEF Tallied
      <4>2. CASE ~(m <= s.cursor)
        <5>1. m = n /\ log[n] = "turn"
          BY <1>0, <1>9, <3>3, <4>2 DEF TurnsAt
        <5>2. kind = "turn"
          BY <1>9, <3>3, <5>1 DEF Given
        <5> QED
          BY <1>4, <1>6, <1>7, <3>1, <3>3, <5>1, <5>2
      <4> QED
        BY <4>1, <4>2
    <3> QED
      BY <1>9, <3>1, <3>2, <3>3 DEF Tallied
  <2> QED
    BY <1>9, <2>1, <2>2, <2>3 DEF ReadSound
<1>15. Sound(t)
  BY <1>7, <1>11, <1>12, <1>13, <1>14 DEF Sound
<1>16. replay /\ kind = "turn" => n \in t.replay.turns
  BY <1>4, <1>6, <1>7
<1>17. kind = "turn" /\ log[n] = "turn" /\ TurnReady(s, n, kind, replay)
           => Showing(t, TurnText(n)) \/ LeftToShown(t, n)
  <2> SUFFICES ASSUME kind = "turn", log[n] = "turn", TurnReady(s, n, kind, replay)
               PROVE  Showing(t, TurnText(n)) \/ LeftToShown(t, n)
    OBVIOUS
  <2>1. replay => Ready(b, n)
    BY <1>4 DEF TurnReady, Ready
  <2>2. TurnText(n) \in Text \ {<<>>}
    BY TurnTextType
  <2> QED
    BY <1>6, <1>7, <2>1, <2>2 DEF Keeps, LeftToShown
<1> QED
  BY <1>8, <1>9, <1>15, <1>16, <1>17 DEF Accepted

(***************************************************************************)
(* accept, for every event of the ledger and for the end of a snapshot.    *)
(***************************************************************************)
LEMMA EventAccepted ==
    ASSUME LogOK, NEW s, Sound(s), NEW n \in 1..Len(log), NEW kind \in Kinds,
           NEW replay \in BOOLEAN, replay => s.replay # None, Given(n, kind),
           NEW t, t = Accept(s, n, kind, replay)
    PROVE  Accepted(s, t, n, kind, replay)
<1>1. CASE s.over \/ n <= s.cursor
  BY <1>1, LateAccepted
<1>2. CASE ~s.over /\ n = s.cursor + 1
  BY <1>2, NextAccepted
<1>3. CASE ~s.over /\ n > s.cursor + 1
  BY <1>3, EarlyAccepted
<1> QED
  BY <1>1, <1>2, <1>3 DEF Sound, Ui, LogOK

-----------------------------------------------------------------------------
(* The loops over accept.                                                  *)

\* From s to t the panel went over the ends of turns, and shows their texts or
\* leaves them to what a replay is told is shown: all but one whose number was
\* taken for the end of a snapshot.
Passed(s, t) ==
    \A m \in (s.cursor + 1)..t.cursor :
        /\ log[m] = "turn"
        /\ Len(log) <= PageSize \/ m < t.cursor \/ ~t.over
        => Showing(t, TurnText(m)) \/ LeftToShown(t, m)

\* The panel got from s to t by accepting events, one after the other.
Run(s, t) ==
    /\ Sound(t) /\ ReplayOn(s, t)
    /\ s.read # None => t.read = s.read
    /\ t.cursor >= s.cursor
    /\ Passed(s, t)

(***************************************************************************)
(* What is shown, or left to what is shown, stays so.                      *)
(***************************************************************************)
LEMMA StaysShown ==
    ASSUME LogOK, NEW s, NEW t, Keeps(s, t), ReplayOn(s, t),
           NEW m \in 1..Len(log), log[m] = "turn",
           Showing(s, TurnText(m)) \/ LeftToShown(s, m)
    PROVE  Showing(t, TurnText(m)) \/ LeftToShown(t, m)
<1>1. TurnText(m) \in Text \ {<<>>}
  BY TurnTextType
<1> QED
  BY <1>1, ReplayChain DEF Keeps

(***************************************************************************)
(* One more event.                                                         *)
(***************************************************************************)
LEMMA RunOn ==
    ASSUME LogOK, NEW replay \in BOOLEAN, NEW s, Sound(s), NEW t, Run(s, t),
           NEW n \in 1..Len(log), NEW kind \in Kinds, Given(n, kind),
           TurnReady(t, n, kind, replay),
           NEW u, Accepted(t, u, n, kind, replay)
    PROVE  Run(s, u)
<1>0. /\ s.cursor \in Nat /\ t.cursor \in 0..Len(log) /\ u.cursor \in 0..Len(log)
      /\ Len(log) \in Nat
  BY DEF Sound, Ui, LogOK, Run, Accepted
<1>1. /\ Sound(u) /\ u.cursor >= s.cursor
      /\ s.read # None => u.read = s.read
  BY <1>0 DEF Run, Accepted
<1>2. ReplayOn(s, u)
  BY ReplayChain DEF Run, Accepted
<1>3. Passed(s, u)
  <2> SUFFICES ASSUME NEW m \in (s.cursor + 1)..u.cursor, log[m] = "turn",
                      Len(log) <= PageSize \/ m < u.cursor \/ ~u.over
               PROVE  Showing(u, TurnText(m)) \/ LeftToShown(u, m)
    BY DEF Passed
  <2>1. m \in 1..Len(log)
    BY <1>0
  <2>2. Keeps(t, u) /\ ReplayOn(t, u) /\ Passed(s, t)
    BY DEF Accepted, Run
  <2>3. CASE m <= t.cursor /\ (Len(log) <= PageSize \/ m < t.cursor \/ ~t.over)
    <3>1. Showing(t, TurnText(m)) \/ LeftToShown(t, m)
      BY <1>0, <2>2, <2>3 DEF Passed
    <3> QED
      BY <2>1, <2>2, <3>1, StaysShown
  <2>4. CASE ~(m <= t.cursor /\ (Len(log) <= PageSize \/ m < t.cursor \/ ~t.over))
    <3>1. /\ m = u.cursor /\ u.cursor = n /\ n = t.cursor + 1 /\ (u.over <=> kind \in Ends)
          /\ u.cursor # t.cursor
      BY <1>0, <2>4 DEF Accepted
    <3>2. kind = "turn"
      BY <1>0, <3>1, AIRunEventsAssumption DEF Given
    <3> QED
      BY <1>0, <3>1, <3>2 DEF Accepted
  <2> QED
    BY <2>3, <2>4
<1> QED
  BY <1>1, <1>2, <1>3 DEF Run

(***************************************************************************)
(* A change of nothing that a run of events is judged by.                  *)
(***************************************************************************)
LEMMA RunAside ==
    ASSUME LogOK, NEW s, Sound(s), NEW t, Run(s, t),
           NEW u, Sound(u), Keeps(t, u), ReplayOn(t, u), u.cursor = t.cursor, u.over = t.over,
           u.read = t.read
    PROVE  Run(s, u)
<1>1. Passed(s, u)
  <2> SUFFICES ASSUME NEW m \in (s.cursor + 1)..u.cursor, log[m] = "turn",
                      Len(log) <= PageSize \/ m < u.cursor \/ ~u.over
               PROVE  Showing(u, TurnText(m)) \/ LeftToShown(u, m)
    BY DEF Passed
  <2>1. m \in 1..Len(log)
    BY DEF Sound, Ui, LogOK
  <2>2. Showing(t, TurnText(m)) \/ LeftToShown(t, m)
    BY DEF Run, Passed
  <2> QED
    BY <2>1, <2>2, StaysShown
<1>2. ReplayOn(s, u)
  BY ReplayChain DEF Run
<1> QED
  BY <1>1, <1>2 DEF Run

(***************************************************************************)
(* The shortest one.                                                       *)
(***************************************************************************)
LEMMA RunStarts ==
    ASSUME NEW s, Sound(s)
    PROVE  Run(s, s)
<1>1. s.cursor \in Nat
  BY DEF Sound, Ui
<1> QED
  BY <1>1, ReplayChain DEF Run, Passed

(***************************************************************************)
(* A page of the ledger: the panel has heard of all its events afterwards, *)
(* and a replay has counted the turns that end in it.                      *)
(***************************************************************************)
LEMMA PageAccepted ==
    ASSUME LogOK, NEW s, Sound(s), s.read # None, NEW n \in s.read.asked..Len(log),
           NEW t, t = PageEvents(s, s.read, n)
    PROVE  LET last == LastOfPage(s.read, n) IN
           /\ Run(s, t)
           /\ last \in 0..n /\ (last < n => Len(log) > PageSize)
           /\ t.over \/ t.cursor >= last
           /\ s.read.replay => TurnsAt(last) \subseteq t.replay.turns
<1> DEFINE from == s.read.after
           last == LastOfPage(s.read, n)
           k == last - from
           replay == s.read.replay
           Step(u, i) == Accept(u, from + i, log[from + i], replay)
           Loop(f, m) == f = [i \in 0..m |-> IF i = 0 THEN s ELSE Step(f[i - 1], i)]
           after == CHOOSE f : Loop(f, k)
           E == {m \in 0..k : \E f : Loop(f, m)}
           Far(u, i) == /\ u.over \/ u.cursor >= from + i
                        /\ replay => TurnsAt(from + i) \subseteq u.replay.turns
           T == {i \in 0..k : Run(s, after[i]) /\ Far(after[i], i)}
<1>0. /\ from \in Nat /\ s.read.asked \in Nat /\ n \in 0..Len(log) /\ from <= n
      /\ Len(log) \in Nat /\ PageSize \in Nat /\ s.cursor \in 0..Len(log)
      /\ replay \in BOOLEAN /\ (replay => s.replay # None)
  BY AIRunEventsAssumption DEF Sound, ReadSound, Ui, Read, LogOK
<1>1. k \in Nat /\ from + k = last /\ last \in 0..n /\ (last < n => Len(log) > PageSize)
  BY <1>0 DEF LastOfPage, Least
<1>2. t = after[k]
  BY DEF PageEvents, Steps
<1>3. \A i \in 1..k : from + i \in 1..Len(log) /\ log[from + i] \in Kinds
  BY <1>0, <1>1 DEF LogOK
<1>5. Run(s, s) /\ Far(s, 0)
  <2>1. Far(s, 0)
    BY <1>0 DEF Sound, ReadSound
  <2> QED
    BY <2>1, RunStarts
<1> HIDE DEF k, from, replay, last
<1>4. ASSUME NEW i \in 1..k, NEW u, Run(s, u), Far(u, i - 1)
      PROVE  Run(s, Step(u, i)) /\ Far(Step(u, i), i)
  <2>1. PICK v : v = Step(u, i)
    OBVIOUS
  <2>2. PICK m \in 1..Len(log) : m = from + i
    BY <1>3
  <2>3. PICK kind \in Kinds : kind = log[m]
    BY <1>3, <2>2
  <2>4. Sound(u) /\ (replay => u.replay # None) /\ u.cursor \in Nat
    BY <1>0, <1>4 DEF Run, ReplayOn, Sound, Ui
  <2>5. Given(m, kind)
    BY <2>3 DEF Given
  <2>6. Accepted(u, v, m, kind, replay)
    BY <1>0, <2>1, <2>2, <2>3, <2>4, <2>5, EventAccepted
  <2>7. /\ u.over \/ u.cursor >= m - 1
        /\ replay => TurnsAt(m - 1) \subseteq u.replay.turns
    <3>1. m - 1 = from + (i - 1)
      BY <1>0, <1>1, <2>2
    <3>2. /\ u.over \/ u.cursor >= from + (i - 1)
          /\ replay => TurnsAt(from + (i - 1)) \subseteq u.replay.turns
      BY <1>4
    <3> QED
      BY <3>1, <3>2
  <2>8. TurnReady(u, m, kind, replay)
    BY <2>7 DEF TurnReady, Ready
  <2>9. Run(s, v)
    BY <1>0, <1>4, <2>5, <2>6, <2>8, RunOn
  <2>10. v.over \/ v.cursor >= m
    BY <2>4, <2>6, <2>7 DEF Accepted
  <2>11. ASSUME replay PROVE TurnsAt(m) \subseteq v.replay.turns
    <3>1. u.replay.turns \subseteq v.replay.turns
      BY <2>4, <2>6, <2>11 DEF Accepted, ReplayOn
    <3>2. kind = "turn" => m \in v.replay.turns
      BY <2>4, <2>6, <2>7, <2>11 DEF Accepted
    <3>3. \A j \in TurnsAt(m) : j \in TurnsAt(m - 1) \/ (j = m /\ kind = "turn")
      BY <2>3 DEF TurnsAt
    <3> QED
      BY <2>7, <2>11, <3>1, <3>2, <3>3
  <2> QED
    BY <2>1, <2>2, <2>9, <2>10, <2>11
<1> HIDE DEF Step, Far
<1>6. 0 \in E
  <2>1. Loop([i \in 0..0 |-> s], 0)
    OBVIOUS
  <2> HIDE DEF Loop
  <2> QED
    BY <1>1, <2>1
<1>7. \A m \in 1..k : m - 1 \in E => m \in E
  <2> SUFFICES ASSUME NEW m \in 1..k, m - 1 \in E PROVE m \in E
    OBVIOUS
  <2>1. PICK f : Loop(f, m - 1)
    OBVIOUS
  <2> DEFINE g == [i \in 0..m |-> IF i = m THEN Step(f[m - 1], m) ELSE f[i]]
  <2>2. Loop(g, m)
    BY <1>1, <2>1
  <2> HIDE DEF g, Loop
  <2> QED
    BY <1>1, <2>2
<1>8. Loop(after, k)
  <2>1. k \in E
    <3> HIDE DEF E
    <3> QED
      BY <1>1, <1>6, <1>7, UpTo
  <2> HIDE DEF Loop
  <2>2. \E f : Loop(f, k)
    BY <2>1
  <2> QED
    BY <2>2
<1> HIDE DEF after
<1>9. 0 \in T /\ \A i \in 1..k : i - 1 \in T => i \in T
  <2>1. after[0] = s /\ \A i \in 1..k : after[i] = Step(after[i - 1], i)
    BY <1>1, <1>8
  <2> HIDE DEF Loop
  <2>2. \A i \in 1..k : i - 1 \in T => i \in T
    <3> SUFFICES ASSUME NEW i \in 1..k, Run(s, after[i - 1]), Far(after[i - 1], i - 1)
                 PROVE  Run(s, after[i]) /\ Far(after[i], i)
      BY <1>1
    <3> QED
      BY <1>4, <2>1
  <2> QED
    BY <1>1, <1>5, <2>1, <2>2
<1>10. k \in T
  <2> HIDE DEF T
  <2> QED
    BY <1>1, <1>9, UpTo
<1>11. Run(s, t) /\ Far(t, k)
  BY <1>2, <1>10
<1> QED
  BY <1>1, <1>11 DEF Far, replay, last

\* A replay has counted every turn before the cursor, if that matters any more.
Complete(s) ==
    s.over \/ s.replay.live \/ TurnsAt(s.cursor) \subseteq s.replay.turns

(***************************************************************************)
(* drainPending takes the events that the gap buffer still holds.          *)
(***************************************************************************)
LEMMA Drained ==
    ASSUME LogOK, NEW replay \in BOOLEAN, NEW s0, Sound(s0), replay => s0.replay # None,
           NEW s, Run(s0, s), replay => Complete(s),
           NEW t, t = DrainPending(s, replay)
    PROVE  Run(s0, t)
<1> DEFINE Step(u, i) == IF u.cursor + 1 \notin u.pending THEN u
                         ELSE Accept([u EXCEPT !.pending = @ \ {u.cursor + 1}], u.cursor + 1,
                                     log[u.cursor + 1], replay)
           Loop(f, m) == f = [i \in 0..m |-> IF i = 0 THEN s ELSE Step(f[i - 1], i)]
           after == CHOOSE f : Loop(f, MaxEvents)
           E == {m \in 0..MaxEvents : \E f : Loop(f, m)}
           Good(u) == Run(s0, u) /\ (replay => Complete(u))
           T == {i \in 0..MaxEvents : Good(after[i])}
<1>1. MaxEvents \in Nat
  BY AIRunEventsAssumption
<1>2. t = after[MaxEvents]
  BY DEF DrainPending, Steps
<1>4. ASSUME NEW i, NEW u, Run(s0, u), replay => Complete(u)
      PROVE  Run(s0, Step(u, i)) /\ (replay => Complete(Step(u, i)))
  <2>1. CASE u.cursor + 1 \notin u.pending
    BY <1>4, <2>1
  <2>2. CASE u.cursor + 1 \in u.pending
    <3>1. PICK n : n = u.cursor + 1
      OBVIOUS
    <3>2. Sound(u) /\ u \in Ui /\ (replay => u.replay # None) /\ u.cursor \in Nat
      BY <1>4 DEF Run, Sound, ReplayOn, Ui
    <3>3. n \in 1..Len(log) /\ log[n] \in Kinds /\ n - 1 = u.cursor
      BY <2>2, <3>1, <3>2 DEF Ui, LogOK
    <3>4. PICK p : p = u.pending \ {n}
      OBVIOUS
    <3>5. PICK b : b = [u EXCEPT !.pending = p]
      OBVIOUS
    <3>6. p \in SUBSET (1..Len(log))
      BY <3>2, <3>4 DEF Ui
    <3>7. /\ b \in Ui /\ b.cursor = u.cursor /\ b.over = u.over /\ b.read = u.read
          /\ b.replay = u.replay /\ b.lastError = u.lastError /\ b.error = u.error
          /\ b.rows = u.rows /\ b.row = u.row /\ b.done = u.done /\ b.handled = u.handled
      BY <3>2, <3>5, <3>6 DEF Ui
    <3>8. Sound(b) /\ ReplayOn(u, b)
      BY <3>2, <3>7, SoundAside, ReplayChain
    <3>9. Keeps(u, b)
      BY <3>7 DEF Keeps, Showing, Shown
    <3>10. Run(s0, b)
      BY <1>4, <3>7, <3>8, <3>9, RunAside
    <3>11. PICK kind \in Kinds : kind = log[n]
      BY <3>3
    <3>12. PICK v : v = Accept(b, n, kind, replay)
      OBVIOUS
    <3>13. Given(n, kind)
      BY <3>11 DEF Given
    <3>14. Accepted(b, v, n, kind, replay)
      BY <3>2, <3>3, <3>7, <3>8, <3>12, <3>13, EventAccepted
    <3>15. replay => Complete(b)
      BY <1>4, <3>7 DEF Complete
    <3>16. TurnReady(b, n, kind, replay)
      BY <3>3, <3>7, <3>15 DEF TurnReady, Ready, Complete
    <3>17. Run(s0, v)
      BY <3>3, <3>10, <3>13, <3>14, <3>16, RunOn
    <3>18. ASSUME replay PROVE Complete(v)
      <4>1. /\ b.replay # None /\ b.replay.turns \subseteq v.replay.turns
            /\ b.replay.live => v.replay.live
        BY <3>2, <3>7, <3>14, <3>18 DEF Accepted, ReplayOn
      <4>2. CASE b.over
        BY <3>14, <4>2 DEF Accepted, Complete
      <4>3. CASE b.replay.live
        BY <4>1, <4>3 DEF Complete
      <4>4. CASE TurnsAt(b.cursor) \subseteq b.replay.turns
        <5>1. v.cursor \in {b.cursor, n} /\ n = b.cursor + 1 /\ b.cursor \in Nat
          BY <3>1, <3>2, <3>7, <3>14 DEF Accepted
        <5>2. kind = "turn" => n \in v.replay.turns
          <6>1. n <= b.cursor + 1
            BY <5>1
          <6> QED
            BY <3>14, <3>18, <6>1 DEF Accepted
        <5>3. \A j \in TurnsAt(v.cursor) : j \in TurnsAt(b.cursor) \/ (j = n /\ kind = "turn")
          BY <3>11, <5>1 DEF TurnsAt
        <5> QED
          BY <4>1, <4>4, <5>2, <5>3 DEF Complete
      <4> QED
        BY <3>15, <3>18, <4>2, <4>3, <4>4 DEF Complete
    <3>19. Step(u, i) = v
      BY <2>2, <3>1, <3>4, <3>5, <3>11, <3>12
    <3> QED
      BY <3>17, <3>18, <3>19
  <2> QED
    BY <2>1, <2>2
<1>5. Good(s) /\ \A i \in 1..MaxEvents : \A u : Good(u) => Good(Step(u, i))
  <2> HIDE DEF Step
  <2> QED
    BY <1>4
<1> HIDE DEF Step, Good
<1>6. 0 \in E
  <2>1. Loop([i \in 0..0 |-> s], 0)
    OBVIOUS
  <2> HIDE DEF Loop
  <2> QED
    BY <1>1, <2>1
<1>7. \A m \in 1..MaxEvents : m - 1 \in E => m \in E
  <2> SUFFICES ASSUME NEW m \in 1..MaxEvents, m - 1 \in E PROVE m \in E
    OBVIOUS
  <2>1. PICK f : Loop(f, m - 1)
    OBVIOUS
  <2> DEFINE g == [i \in 0..m |-> IF i = m THEN Step(f[m - 1], m) ELSE f[i]]
  <2>2. Loop(g, m)
    BY <1>1, <2>1
  <2> HIDE DEF g, Loop
  <2> QED
    BY <1>1, <2>2
<1>8. Loop(after, MaxEvents)
  <2>1. MaxEvents \in E
    <3> HIDE DEF E
    <3> QED
      BY <1>1, <1>6, <1>7, UpTo
  <2> HIDE DEF Loop
  <2>2. \E f : Loop(f, MaxEvents)
    BY <2>1
  <2> QED
    BY <2>2
<1> HIDE DEF after
<1>9. 0 \in T /\ \A i \in 1..MaxEvents : i - 1 \in T => i \in T
  <2>1. after[0] = s /\ \A i \in 1..MaxEvents : after[i] = Step(after[i - 1], i)
    BY <1>1, <1>8
  <2> HIDE DEF Loop
  <2> QED
    BY <1>1, <1>5, <2>1
<1>10. MaxEvents \in T
  <2> HIDE DEF T
  <2> QED
    BY <1>1, <1>9, UpTo
<1> QED
  BY <1>2, <1>10 DEF Good

(***************************************************************************)
(* A replay that comes to the end of the ledger shows what it held back.   *)
(***************************************************************************)
LEMMA FlushedAndDrained ==
    ASSUME LogOK, NEW replay \in BOOLEAN, NEW s0, Sound(s0), replay => s0.replay # None,
           NEW s, Run(s0, s), replay => Complete(s),
           NEW t, t = FlushAndDrain(s, replay)
    PROVE  Run(s0, t)
<1>1. CASE ~replay
  BY <1>1, Drained DEF FlushAndDrain
<1>2. CASE replay
  <2>1. PICK f : f = Flush(s)
    OBVIOUS
  <2>2. Sound(s) /\ s \in Ui /\ s.replay # None
    BY <1>2 DEF Run, Sound, ReplayOn
  <2>3. /\ f \in Ui /\ SameReads(s, f) /\ Keeps(s, f) /\ ReplayOn(s, f)
        /\ f.lastError = s.lastError /\ f.error = s.error /\ f.handled = s.handled
    BY <2>1, <2>2, Flushed
  <2>4. Sound(f)
    BY <2>2, <2>3, SoundAside DEF SameReads
  <2>5. t = DrainPending(f, replay)
    BY <1>2, <2>1 DEF FlushAndDrain
  <2>6. Run(s0, f)
    BY <2>3, <2>4, RunAside DEF SameReads
  <2>7. Complete(f)
    BY <1>2, <2>2, <2>3 DEF Complete, SameReads, ReplayOn
  <2> QED
    BY <2>5, <2>6, <2>7, Drained
<1> QED
  BY <1>1, <1>2

(***************************************************************************)
(* The state of a snapshot is an end only when the terminal event is its   *)
(* last one.                                                               *)
(***************************************************************************)
LEMMA StateEnds ==
    ASSUME LogOK, NEW n \in 0..Len(log), StateAt(n) \in Ends
    PROVE  n = Len(log) /\ n > 0 /\ log[n] = StateAt(n)
<1>1. n > 0 /\ log[n] \in Ends /\ log[n] = StateAt(n)
  BY DEF StateAt, Ends, Failures
<1>2. n \in 1..Len(log)
  BY <1>1 DEF LogOK
<1> QED
  BY <1>1, <1>2, LogOrder

(***************************************************************************)
(* The terminal event that is made of a snapshot.                          *)
(***************************************************************************)
LEMMA SnapshotEnded ==
    ASSUME LogOK, NEW replay \in BOOLEAN, NEW s0, Sound(s0), NEW s, Run(s0, s),
           replay => s0.replay # None,
           NEW n \in 0..Len(log), Len(log) <= PageSize => s.over \/ s.cursor >= n,
           NEW t, t = SnapshotEnds(s, StateAt(n), replay)
    PROVE  /\ Run(s0, t)
           /\ IF StateAt(n) \in Ends THEN t.over ELSE t = s
<1>0. Sound(s) /\ s \in Ui /\ s.cursor \in 0..Len(log) /\ Len(log) \in Nat
  BY DEF Run, Sound, Ui, LogOK
<1>1. CASE StateAt(n) \notin Ends
  <2>1. t = s
    BY <1>1 DEF SnapshotEnds
  <2> QED
    BY <1>1, <2>1
<1>2. CASE StateAt(n) \in Ends /\ s.handled
  <2>1. t = s
    BY <1>2 DEF SnapshotEnds
  <2>2. s.over
    BY <1>0, <1>2 DEF Sound, Caused
  <2> QED
    BY <1>2, <2>1, <2>2
<1>3. CASE StateAt(n) \in Ends /\ ~s.handled
  <2>1. PICK kind : kind = StateAt(n)
    OBVIOUS
  <2>2. t = Accept(s, s.cursor + 1, kind, replay)
    BY <1>3, <2>1 DEF SnapshotEnds
  <2>3. n = Len(log) /\ n > 0 /\ log[n] = kind /\ kind \in Ends
    BY <1>3, <2>1, StateEnds
  <2>4. kind # "turn" /\ kind \in Kinds
    BY <2>3 DEF Ends, Failures, Kinds
  <2>5. CASE s.over /\ ~replay
    <3>1. t = s
      BY <2>2, <2>5 DEF Accept
    <3> QED
      BY <1>3, <2>5, <3>1
  <2>6. CASE s.over /\ replay
    <3>1. t = ApplyControl(s, kind)
      BY <2>2, <2>4, <2>6 DEF Accept
    <3>2. t \in Ui /\ Alike(s, t) /\ Keeps(s, t)
      BY <1>0, <3>1, ControlApplied
    <3>3. ReplayOn(s, t)
      BY <3>2, ReplayChain DEF Alike
    <3>4. Sound(t)
      BY <1>0, <3>2, <3>3, SoundAside DEF Alike, SameReads
    <3>5. Run(s0, t)
      BY <3>2, <3>3, <3>4, RunAside DEF Alike, SameReads
    <3> QED
      BY <1>3, <2>6, <3>2, <3>5 DEF Alike, SameReads
  <2>7. CASE ~s.over
    <3>1. s.cursor < Len(log)
      BY <1>0, <2>3, <2>7 DEF Sound, EndSeen
    <3>2. s.cursor + 1 \in 1..Len(log)
      BY <1>0, <3>1
    <3>3. Len(log) > PageSize
      BY <1>0, <2>3, <2>7, <3>1, AIRunEventsAssumption
    <3>4. replay => s.replay # None
      BY DEF Run, ReplayOn
    <3>5. PICK m \in 1..Len(log) : m = s.cursor + 1
      BY <3>2
    <3>6. Given(m, kind)
      BY <2>3, <3>3 DEF Given
    <3>7. TurnReady(s, m, kind, replay)
      BY <2>4 DEF TurnReady
    <3>8. Accepted(s, t, m, kind, replay)
      BY <1>0, <2>2, <2>4, <3>4, <3>5, <3>6, EventAccepted
    <3>9. Run(s0, t)
      BY <2>4, <3>6, <3>7, <3>8, RunOn
    <3>10. t.over
      BY <2>3, <2>7, <3>5, <3>8 DEF Accepted
    <3> QED
      BY <1>3, <3>9, <3>10
  <2> QED
    BY <1>3, <2>5, <2>6, <2>7
<1> QED
  BY <1>1, <1>2, <1>3

(***************************************************************************)
(* The answer to a read of the ledger.                                     *)
(***************************************************************************)
LEMMA PageRead ==
    ASSUME LogOK, NEW s, Sound(s), s.read # None, NEW n \in s.read.asked..Len(log),
           NEW t, t = Page(s, s.read, n)
    PROVE  Sound(t) /\ Passed(s, t) /\ (s.replay = None => t.replay = None)
<1> DEFINE replay == s.read.replay
           last == LastOfPage(s.read, n)
<1>0. /\ s \in Ui /\ s.read \in Read /\ n \in 0..Len(log) /\ replay \in BOOLEAN
      /\ (replay => s.replay # None)
      /\ s.read.after \in Nat /\ s.read.asked \in Nat /\ s.read.asked <= n
      /\ Len(log) \in Nat /\ PageSize \in Nat /\ PageSize > 0 /\ Len(log) <= MaxEvents
      /\ MaxEvents \in Nat
  BY AIRunEventsAssumption DEF Sound, ReadSound, Ui, Read, LogOK
<1>1. PICK p : p = PageEvents(s, s.read, n)
  OBVIOUS
<1>2. /\ Run(s, p)
      /\ last \in 0..n /\ (last < n => Len(log) > PageSize)
      /\ p.over \/ p.cursor >= last
      /\ replay => TurnsAt(last) \subseteq p.replay.turns
  BY <1>1, PageAccepted
<1> HIDE DEF last
<1>3. PICK e : e = SnapshotEnds(p, StateAt(n), replay)
  OBVIOUS
<1>4. Run(s, e) /\ IF StateAt(n) \in Ends THEN e.over ELSE e = p
  <2>1. Len(log) <= PageSize => p.over \/ p.cursor >= n
    <3>1. p.cursor \in Nat
      BY <1>2 DEF Run, Sound, Ui
    <3> QED
      BY <1>0, <1>2, <3>1
  <2> QED
    BY <1>0, <1>2, <1>3, <2>1, SnapshotEnded
<1>5. t = PageDone(e, s.read, n)
  BY <1>1, <1>3 DEF Page
<1>6. /\ Sound(e) /\ e \in Ui /\ e.read = s.read /\ (replay => e.replay # None)
      /\ e.cursor \in 0..Len(log)
  BY <1>0, <1>4 DEF Run, ReplayOn, Sound, Ui
<1>7. ASSUME NEW r, ReplayOn(s, r) PROVE s.replay = None => r.replay = None
  BY <1>7 DEF ReplayOn
<1>8. CASE last < n /\ StateAt(n) \notin Ends
  <2> DEFINE after == IF replay THEN last ELSE e.cursor
             read == [replay |-> replay, asked |-> Len(log), after |-> after]
  <2>1. t = [e EXCEPT !.read = read]
    BY <1>5, <1>8 DEF PageDone, last
  <2>2. after \in 0..Len(log)
    BY <1>0, <1>2, <1>6
  <2>3. /\ e.over \/ after <= e.cursor
        /\ replay => TurnsAt(after) \subseteq e.replay.turns
    BY <1>0, <1>2, <1>4, <1>6, <1>8
  <2> HIDE DEF after
  <2>4. /\ read \in Read /\ read # None
        /\ read.after = after /\ read.asked = Len(log) /\ read.replay = replay
    BY <1>0, <2>2, NoneIsNothingElse DEF Read
  <2> HIDE DEF read
  <2>5. /\ t \in Ui /\ t.read = read /\ t.cursor = e.cursor /\ t.over = e.over
        /\ t.replay = e.replay /\ t.lastError = e.lastError /\ t.error = e.error
        /\ t.rows = e.rows /\ t.row = e.row /\ t.done = e.done /\ t.handled = e.handled
    BY <1>6, <2>1, <2>4 DEF Ui
  <2>6. EndSeen(t) /\ ErrorSeen(t) /\ Caused(t)
    BY <1>6, <2>5 DEF Sound, EndSeen, ErrorSeen, Caused
  <2>7. ReadSound(t)
    <3>1. \A m \in TurnsAt(t.cursor) : m <= t.read.asked
      BY <1>0, <1>6, <2>4, <2>5 DEF TurnsAt
    <3>2. t.read.after <= t.read.asked /\ t.read.asked <= Len(log)
      BY <1>0, <2>2, <2>4, <2>5
    <3> QED
      BY <1>6, <2>3, <2>4, <2>5, <3>1, <3>2 DEF ReadSound, Tallied
  <2>8. Sound(t)
    BY <2>5, <2>6, <2>7 DEF Sound
  <2>9. Passed(s, t)
    BY <1>4, <2>5 DEF Run, Passed, Showing, Shown, LeftToShown
  <2>10. ReplayOn(s, e)
    BY <1>4 DEF Run
  <2> QED
    BY <1>7, <2>5, <2>8, <2>9, <2>10
<1>9. CASE ~(last < n /\ StateAt(n) \notin Ends)
  <2>1. ASSUME replay PROVE Complete(e)
    <3>1. CASE StateAt(n) \in Ends
      BY <1>4, <3>1 DEF Complete
    <3>2. CASE StateAt(n) \notin Ends
      <4>1. last = n /\ e = p
        BY <1>0, <1>2, <1>4, <1>9, <3>2
      <4>2. Tallied(e)
        BY <1>0, <1>6, <2>1 DEF Sound, ReadSound
      <4>3. \A m \in TurnsAt(e.cursor) : m <= e.read.asked => m \in TurnsAt(last)
        BY <1>0, <1>6, <4>1 DEF TurnsAt
      <4> QED
        BY <1>2, <2>1, <4>1, <4>2, <4>3 DEF Tallied, Complete
    <3> QED
      BY <3>1, <3>2
  <2>2. PICK d : d = FlushAndDrain(e, replay)
    OBVIOUS
  <2>3. Run(s, d)
    BY <1>0, <1>4, <2>1, <2>2, FlushedAndDrained
  <2>4. t = PollWhileActive(d, StateAt(n))
    BY <1>5, <1>9, <2>2 DEF PageDone, last
  <2> DEFINE timer == StateAt(n) = "active" \/ d.pending # {}
  <2>5. t = [d EXCEPT !.read = None, !.timer = timer]
    BY <2>4 DEF PollWhileActive
  <2>6. timer \in BOOLEAN
    OBVIOUS
  <2> HIDE DEF timer
  <2>7. Sound(d) /\ d \in Ui /\ ReplayOn(s, d) /\ Passed(s, d)
    BY <2>3 DEF Run, Sound
  <2>8. /\ t \in Ui /\ t.read = None /\ t.cursor = d.cursor /\ t.over = d.over
        /\ t.replay = d.replay /\ t.lastError = d.lastError /\ t.error = d.error
        /\ t.rows = d.rows /\ t.row = d.row /\ t.done = d.done /\ t.handled = d.handled
    BY <2>5, <2>6, <2>7 DEF Ui
  <2>9. Sound(t)
    BY <2>7, <2>8, SoundAside
  <2>10. Passed(s, t)
    BY <2>7, <2>8 DEF Passed, Showing, Shown, LeftToShown
  <2> QED
    BY <1>7, <2>7, <2>8, <2>9, <2>10
<1> QED
  BY <1>8, <1>9

-----------------------------------------------------------------------------
(* The answers to the reads of the session, and the subscription.          *)

(***************************************************************************)
(* mergeAIChatSessionMessages replaces the rows of the chat and nothing    *)
(* else.                                                                   *)
(***************************************************************************)
LEMMA Merged ==
    ASSUME LogOK, NEW s \in Ui, NEW n \in 0..Len(log), NEW t, t = MergeAt(s, n)
    PROVE  t \in Ui /\ Alike(s, t)
<1> DEFINE durable == IF TurnsAt(n) = {} THEN None
                      ELSE [loading |-> FALSE, text |-> DurableText(n)]
           keep(r) == /\ s.rows[r] # None /\ s.rows[r].loading /\ s.error = 0
                      /\ durable = None \/ s.rows[r].text \notin {<<>>, durable.text}
           rows == [r \in Rows |-> IF r = "durable" /\ durable # None THEN durable
                                   ELSE IF keep(r) THEN s.rows[r] ELSE None]
<1>1. durable \in Row \cup {None}
  BY DurableTextType DEF Row
<1>2. \A r \in Rows : s.rows[r] \in Row \cup {None}
  BY DEF Ui
<1>3. t = [s EXCEPT !.rows = rows]
  BY DEF MergeAt
<1> HIDE DEF durable, keep
<1>4. rows \in [Rows -> Row \cup {None}]
  BY <1>1, <1>2
<1> HIDE DEF rows
<1> QED
  BY <1>3, <1>4 DEF Ui, Alike, SameReads

(***************************************************************************)
(* A new replay has a base line, and nothing replayed yet.                 *)
(***************************************************************************)
LEMMA ReplayStarts ==
    ASSUME LogOK, NEW n \in 0..Len(log)
    PROVE  NewReplay(n) \in Replay /\ NewReplay(n) # None
<1>1. Len(log) \in Nat /\ MaxEvents \in Nat /\ Len(log) <= MaxEvents /\ n \in 0..MaxEvents
  BY AIRunEventsAssumption DEF LogOK
<1>2. IsFiniteSet(1..n) /\ Cardinality(1..n) = n
  BY <1>1, FS_Interval
<1>3. TurnsAt(n) \subseteq 1..n
  BY DEF TurnsAt
<1>4. IsFiniteSet(TurnsAt(n)) /\ Cardinality(TurnsAt(n)) <= n
  BY <1>2, <1>3, FS_Subset
<1>5. Cardinality(TurnsAt(n)) \in Nat
  BY <1>4, FS_CardinalityType
<1>6. Cardinality(TurnsAt(n)) \in 0..MaxEvents
  BY <1>1, <1>4, <1>5
<1>7. NewReplay(n) \in Replay
  BY <1>6, HoldsEmpty DEF NewReplay, Replay
<1> QED
  BY <1>7, NoneIsNothingElse

(***************************************************************************)
(* The subscription effect abandons what was in flight.                    *)
(***************************************************************************)
LEMMA Subscribed ==
    ASSUME NEW s, Sound(s), NEW t,
           t = [s EXCEPT !.pending = {}, !.timer = FALSE, !.read = None, !.replay = None]
    PROVE  Sound(t) /\ t.cursor = s.cursor /\ t.replay = None
<1>1. s \in Ui
  BY DEF Sound
<1>2. /\ t \in Ui /\ t.cursor = s.cursor /\ t.over = s.over /\ t.read = None
      /\ t.lastError = s.lastError /\ t.error = s.error /\ t.handled = s.handled
      /\ t.replay = None
  BY <1>1 DEF Ui
<1> QED
  BY <1>2, SoundAside

(***************************************************************************)
(* A frontend that was reloaded knows nothing of the run.                  *)
(***************************************************************************)
LEMMA IdleSound ==
    ASSUME LogOK, NEW t, t = Idle \/ t = [Idle EXCEPT !.sending = TRUE]
    PROVE  Sound(t) /\ t.cursor = 0
<1>1. Len(log) \in Nat /\ <<>> \in Text
  BY HoldsEmpty DEF LogOK
<1>2. PICK rows : rows = [r \in Rows |-> None]
  OBVIOUS
<1>3. rows \in [Rows -> Row \cup {None}]
  BY <1>2
<1>4. Idle = [cursor |-> 0, over |-> FALSE, row |-> None, done |-> <<>>, turn |-> <<>>,
              handled |-> FALSE, lastError |-> 0, error |-> 0,
              rows |-> rows, hydrating |-> {},
              sending |-> FALSE, mine |-> FALSE, tracked |-> FALSE, keyed |-> FALSE,
              pending |-> {}, timer |-> FALSE, read |-> None, replay |-> None]
  BY <1>2, Zenon DEF Idle
<1>5. /\ Idle \in Ui /\ Idle.cursor = 0 /\ Idle.over = FALSE /\ Idle.read = None
      /\ Idle.lastError = 0 /\ Idle.handled = FALSE
  BY <1>1, <1>3, <1>4 DEF Ui
<1>6. /\ t \in Ui /\ t.cursor = 0 /\ t.over = FALSE /\ t.read = None
      /\ t.lastError = 0 /\ t.handled = FALSE
  BY <1>5 DEF Ui
<1> QED
  BY <1>1, <1>6 DEF Sound, EndSeen, ErrorSeen, Caused, ReadSound

-----------------------------------------------------------------------------
(* The steps.                                                              *)

\* The inductive invariant.
Inv ==
    /\ LogOK /\ Sound(ui)
    /\ sent \subseteq 1..Len(log)
    /\ boot \in 0..Len(log) \cup {None}
    /\ boot # None => ui.replay = None
    /\ receipt \in BOOLEAN /\ opens \in 0..MaxOpens

\* What every step but the ledger's own does to the panel.
Kept(s, t) == Sound(t) /\ Passed(s, t)

(***************************************************************************)
(* A step that reads no event goes over no turn.                           *)
(***************************************************************************)
LEMMA Unmoved ==
    ASSUME NEW s, Sound(s), NEW t, Sound(t), t.cursor <= s.cursor
    PROVE  Kept(s, t)
<1>1. s.cursor \in Nat /\ t.cursor \in Nat
  BY DEF Sound, Ui
<1> QED
  BY <1>1 DEF Kept, Passed

(***************************************************************************)
(* Deliver: one event is announced.                                        *)
(***************************************************************************)
LEMMA DeliverKeeps ==
    ASSUME Inv, Deliver
    PROVE  Kept(ui, ui') /\ (ui.replay = None => ui'.replay = None)
<1>1. PICK n \in sent :
        LET a == Accept(ui, n, log[n], FALSE)
        IN  /\ sent' = sent \ {n}
            /\ ui' = [a EXCEPT !.tracked =
                         @ \/ (a.cursor # ui.cursor /\ log[n] # "delta")]
  BY DEF Deliver
<1>2. PICK replay \in BOOLEAN : replay = FALSE
  OBVIOUS
<1>3. PICK kind : kind = log[n]
  OBVIOUS
<1>4. PICK a : a = Accept(ui, n, kind, replay)
  OBVIOUS
<1>5. Sound(ui) /\ LogOK /\ n \in 1..Len(log)
  BY <1>1 DEF Inv, LogOK
<1>6. kind \in Kinds /\ Given(n, kind)
  BY <1>3, <1>5 DEF LogOK, Given
<1>7. Accepted(ui, a, n, kind, replay)
  <2>1. a = Accept(ui, n, kind, replay)
    BY <1>2, <1>3, <1>4, Zenon
  <2> QED
    BY <1>2, <1>5, <1>6, <2>1, EventAccepted
<1>8. Run(ui, a)
  <2>1. TurnReady(ui, n, kind, replay)
    BY <1>2 DEF TurnReady
  <2>2. Run(ui, ui)
    BY <1>5, RunStarts
  <2> QED
    BY <1>5, <1>6, <1>7, <2>1, <2>2, RunOn
<1> DEFINE tracked == a.tracked \/ (a.cursor # ui.cursor /\ log[n] # "delta")
<1>9. ui' = [a EXCEPT !.tracked = tracked]
  BY <1>1, <1>2, <1>3, <1>4, Zenon
<1>10. a \in Ui /\ Sound(a)
  BY <1>8 DEF Run, Sound
<1>11. tracked \in BOOLEAN
  BY <1>10 DEF Ui
<1> HIDE DEF tracked
<1>12. /\ ui' \in Ui /\ ui'.cursor = a.cursor /\ ui'.over = a.over /\ ui'.read = a.read
       /\ ui'.replay = a.replay /\ ui'.lastError = a.lastError /\ ui'.error = a.error
       /\ ui'.rows = a.rows /\ ui'.row = a.row /\ ui'.done = a.done
       /\ ui'.handled = a.handled
  BY <1>9, <1>10, <1>11 DEF Ui
<1>13. Sound(ui') /\ ReplayOn(a, ui')
  BY <1>10, <1>12, SoundAside, ReplayChain
<1>14. Keeps(a, ui')
  BY <1>12 DEF Keeps, Showing, Shown
<1>15. Run(ui, ui')
  BY <1>5, <1>8, <1>12, <1>13, <1>14, RunAside
<1> QED
  BY <1>15 DEF Run, Kept, ReplayOn

(***************************************************************************)
(* SubmitReceipt: the queued row, and the session is asked for.            *)
(***************************************************************************)
LEMMA SubmitReceiptKeeps ==
    ASSUME Inv, SubmitReceipt
    PROVE  Kept(ui, ui') /\ ui'.replay = ui.replay
<1> DEFINE busy == \E r \in Rows : Shown(ui, r) /\ ui.rows[r].loading
<1>1. PICK s : s = IF ui.handled \/ busy THEN ui ELSE Put(ui, "transient", TRUE, <<>>)
  OBVIOUS
<1>2. Sound(ui) /\ ui \in Ui /\ LogOK
  BY DEF Inv, Sound
<1>3. s \in Ui /\ Alike(ui, s)
  <2>1. CASE ui.handled \/ busy
    BY <1>1, <1>2, <2>1, Chain
  <2>2. CASE ~(ui.handled \/ busy)
    <3>1. s = [ui EXCEPT !.rows["transient"] = Loading(<<>>)]
      BY <1>1, <2>2 DEF Put, Loading
    <3>2. Loading(<<>>) \in Row /\ "transient" \in Rows
      BY LoadingRow, HoldsEmpty DEF Rows
    <3> QED
      BY <1>2, <3>1, <3>2, NewRow
  <2> QED
    BY <2>1, <2>2
<1> DEFINE sending == s.sending /\ ~ui.handled
           hydrating == s.hydrating \cup {Len(log)}
<1>4. ui' = [s EXCEPT !.hydrating = hydrating, !.tracked = TRUE, !.mine = TRUE,
                      !.sending = sending]
  BY <1>1, Zenon DEF SubmitReceipt
<1>5. sending \in BOOLEAN /\ hydrating \in SUBSET (0..Len(log))
  BY <1>2, <1>3 DEF Ui, LogOK
<1> HIDE DEF sending, hydrating
<1>6. /\ ui' \in Ui /\ ui'.cursor = s.cursor /\ ui'.over = s.over /\ ui'.read = s.read
      /\ ui'.replay = s.replay /\ ui'.lastError = s.lastError /\ ui'.error = s.error
      /\ ui'.handled = s.handled
  BY <1>3, <1>4, <1>5 DEF Ui
<1>7. Sound(ui') /\ ui'.cursor = ui.cursor /\ ui'.replay = ui.replay
  BY <1>2, <1>3, <1>6, SoundAside, ReplayChain DEF Alike, SameReads
<1> QED
  BY <1>2, <1>7, Unmoved DEF Ui

(***************************************************************************)
(* TrackRun, ReopenPanel and ReloadPage: the effect runs again.            *)
(***************************************************************************)
LEMMA SubscribeKeeps ==
    ASSUME Inv, TrackRun \/ ReopenPanel \/ ReloadPage
    PROVE  Kept(ui, ui') /\ ui'.replay = None
<1>1. Sound(ui) /\ ui \in Ui /\ LogOK
  BY DEF Inv, Sound
<1>2. PICK s : /\ Sound(s) /\ s.cursor <= ui.cursor
               /\ ui' = [s EXCEPT !.pending = {}, !.timer = FALSE, !.read = None,
                                  !.replay = None]
  <2>1. CASE TrackRun
    <3>1. PICK s : s = [ui EXCEPT !.keyed = TRUE]
      OBVIOUS
    <3>2. /\ s \in Ui /\ s.cursor = ui.cursor /\ s.over = ui.over /\ s.read = ui.read
          /\ s.replay = ui.replay /\ s.lastError = ui.lastError /\ s.error = ui.error
          /\ s.handled = ui.handled
      BY <1>1, <3>1 DEF Ui
    <3>3. Sound(s) /\ s.cursor <= ui.cursor
      BY <1>1, <3>2, SoundAside, ReplayChain DEF Ui
    <3> QED
      BY <2>1, <3>1, <3>3 DEF TrackRun, Subscribe
  <2>2. CASE ReopenPanel
    <3>1. PICK s : s = [ui EXCEPT !.sending = FALSE, !.mine = FALSE, !.tracked = FALSE,
                                  !.keyed = FALSE]
      OBVIOUS
    <3>2. /\ s \in Ui /\ s.cursor = ui.cursor /\ s.over = ui.over /\ s.read = ui.read
          /\ s.replay = ui.replay /\ s.lastError = ui.lastError /\ s.error = ui.error
          /\ s.handled = ui.handled
      BY <1>1, <3>1 DEF Ui
    <3>3. Sound(s) /\ s.cursor <= ui.cursor
      BY <1>1, <3>2, SoundAside, ReplayChain DEF Ui
    <3> QED
      BY <2>2, <3>1, <3>3 DEF ReopenPanel, Subscribe
  <2>3. CASE ReloadPage
    <3>1. Sound(Idle) /\ Idle.cursor = 0
      BY <1>1, IdleSound
    <3>2. Idle.cursor <= ui.cursor
      BY <1>1, <3>1 DEF Ui
    <3> QED
      BY <2>3, <3>1, <3>2 DEF ReloadPage, Subscribe
  <2> QED
    BY <2>1, <2>2, <2>3
<1>3. Sound(ui') /\ ui'.cursor = s.cursor /\ ui'.replay = None
  BY <1>2, Subscribed
<1> QED
  BY <1>1, <1>2, <1>3, Unmoved

(***************************************************************************)
(* BootstrapAnswers: the rows of the ledger, and a replay.                 *)
(***************************************************************************)
LEMMA BootstrapKeeps ==
    ASSUME Inv, BootstrapAnswers
    PROVE  Kept(ui, ui')
<1>1. /\ Sound(ui) /\ ui \in Ui /\ LogOK /\ boot \in 0..Len(log) /\ Len(log) \in Nat
      /\ ui.replay = None
  BY DEF Inv, Sound, BootstrapAnswers, LogOK
<1>2. PICK n \in boot..Len(log) :
        LET s == [MergeAt(ui, n) EXCEPT !.tracked = TRUE,
                      !.sending = StateAt(n) \notin Ends \/ (@ /\ ~ui.mine)]
        IN  ui' = IF StateAt(n) \in {"completed", "canceled"} THEN s
                  ELSE Recover([s EXCEPT !.replay = NewReplay(n)], TRUE)
  BY DEF BootstrapAnswers
<1>3. n \in 0..Len(log)
  BY <1>1
<1>4. PICK m : m = MergeAt(ui, n)
  OBVIOUS
<1>5. m \in Ui /\ Alike(ui, m)
  BY <1>1, <1>3, <1>4, Merged
<1> DEFINE sending == StateAt(n) \notin Ends \/ (m.sending /\ ~ui.mine)
<1>6. sending \in BOOLEAN
  OBVIOUS
<1>7. PICK s : s = [m EXCEPT !.tracked = TRUE, !.sending = sending]
  OBVIOUS
<1>8. ui' = IF StateAt(n) \in {"completed", "canceled"} THEN s
            ELSE Recover([s EXCEPT !.replay = NewReplay(n)], TRUE)
  BY <1>2, <1>4, <1>7, Zenon
<1> HIDE DEF sending
<1>9. /\ s \in Ui /\ s.cursor = ui.cursor /\ s.over = ui.over /\ s.read = ui.read
      /\ s.replay = ui.replay /\ s.lastError = ui.lastError /\ s.error = ui.error
      /\ s.handled = ui.handled
  BY <1>5, <1>6, <1>7 DEF Ui, Alike, SameReads
<1>10. CASE StateAt(n) \in {"completed", "canceled"}
  <2>1. Sound(s)
    BY <1>1, <1>9, SoundAside, ReplayChain
  <2> QED
    BY <1>1, <1>8, <1>9, <1>10, <2>1, Unmoved DEF Ui
<1>11. CASE StateAt(n) \notin {"completed", "canceled"}
  <2>1. PICK r : r = NewReplay(n)
    OBVIOUS
  <2>2. r \in Replay /\ r # None
    BY <1>1, <1>3, <2>1, ReplayStarts
  <2>3. PICK q : q = [s EXCEPT !.replay = r]
    OBVIOUS
  <2>4. /\ q \in Ui /\ q.cursor = s.cursor /\ q.over = s.over /\ q.read = s.read
        /\ q.replay = r /\ q.lastError = s.lastError /\ q.error = s.error
        /\ q.handled = s.handled
    BY <1>9, <2>2, <2>3 DEF Ui
  <2>5. Sound(q)
    BY <1>1, <1>9, <2>2, <2>4, SoundAside
  <2>6. PICK replay \in BOOLEAN : replay = TRUE
    OBVIOUS
  <2>7. ui' = Recover(q, replay)
    BY <1>8, <1>11, <2>1, <2>3, <2>6, Zenon
  <2>8. Sound(ui') /\ ui'.cursor = q.cursor
    BY <1>1, <2>2, <2>4, <2>5, <2>7, Recovered
  <2> QED
    BY <1>1, <1>9, <2>4, <2>8, Unmoved DEF Ui
<1> QED
  BY <1>10, <1>11

(***************************************************************************)
(* HydrationAnswers: the rows of the ledger.                               *)
(***************************************************************************)
LEMMA HydrationKeeps ==
    ASSUME Inv, HydrationAnswers
    PROVE  Kept(ui, ui') /\ ui'.replay = ui.replay
<1>1. Sound(ui) /\ ui \in Ui /\ LogOK /\ Len(log) \in Nat
  BY DEF Inv, Sound, LogOK
<1>2. PICK asked \in ui.hydrating : \E m \in asked..Len(log) :
        ui' = MergeAt([ui EXCEPT !.hydrating = @ \ {asked}], m)
  BY DEF HydrationAnswers
<1>3. PICK n \in 0..Len(log) : ui' = MergeAt([ui EXCEPT !.hydrating = @ \ {asked}], n)
  BY <1>1, <1>2 DEF Ui
<1>4. PICK hydrating : hydrating = ui.hydrating \ {asked}
  OBVIOUS
<1>5. PICK s : s = [ui EXCEPT !.hydrating = hydrating]
  OBVIOUS
<1>6. hydrating \in SUBSET (0..Len(log))
  BY <1>1, <1>4 DEF Ui
<1>7. /\ s \in Ui /\ s.cursor = ui.cursor /\ s.over = ui.over /\ s.read = ui.read
      /\ s.replay = ui.replay /\ s.lastError = ui.lastError /\ s.error = ui.error
      /\ s.handled = ui.handled
  BY <1>1, <1>5, <1>6 DEF Ui
<1>8. ui' = MergeAt(s, n)
  BY <1>3, <1>4, <1>5
<1>9. ui' \in Ui /\ Alike(s, ui')
  BY <1>1, <1>3, <1>7, <1>8, Merged
<1>10. Sound(ui') /\ ui'.cursor = ui.cursor /\ ui'.replay = ui.replay
  BY <1>1, <1>7, <1>9, SoundAside, ReplayChain DEF Alike, SameReads
<1> QED
  BY <1>1, <1>10, Unmoved DEF Ui

(***************************************************************************)
(* ReadAnswers: a page of the ledger.                                      *)
(***************************************************************************)
LEMMA ReadAnswersKeeps ==
    ASSUME Inv, ReadAnswers
    PROVE  Kept(ui, ui') /\ (ui.replay = None => ui'.replay = None)
<1>1. PICK n \in ui.read.asked..Len(log) : ui' = Page(ui, ui.read, n)
  BY DEF ReadAnswers
<1>2. PICK t : t = ui'
  OBVIOUS
<1>3. Sound(t) /\ Passed(ui, t) /\ (ui.replay = None => t.replay = None)
  BY <1>1, <1>2, PageRead DEF Inv, ReadAnswers
<1> QED
  BY <1>2, <1>3 DEF Kept

(***************************************************************************)
(* ReadFails, SessionReadFails and RetryTimer.                             *)
(***************************************************************************)
LEMMA FailureKeeps ==
    ASSUME Inv, ReadFails \/ SessionReadFails \/ RetryTimer
    PROVE  Kept(ui, ui') /\ ui'.replay = ui.replay
<1>1. Sound(ui) /\ ui \in Ui /\ LogOK /\ Len(log) \in Nat
  BY DEF Inv, Sound, LogOK
<1>2. CASE ReadFails
  <2>1. ui' = [ui EXCEPT !.read = None, !.timer = TRUE]
    BY <1>2 DEF ReadFails
  <2>2. /\ ui' \in Ui /\ ui'.cursor = ui.cursor /\ ui'.over = ui.over /\ ui'.read = None
        /\ ui'.lastError = ui.lastError /\ ui'.error = ui.error /\ ui'.handled = ui.handled
        /\ ui'.replay = ui.replay
    BY <1>1, <2>1 DEF Ui
  <2> QED
    BY <1>1, <2>2, SoundAside, Unmoved DEF Ui
<1>3. CASE SessionReadFails /\ UNCHANGED ui
  <2>1. Sound(ui') /\ ui'.cursor = ui.cursor /\ ui'.replay = ui.replay
    BY <1>1, <1>3
  <2> QED
    BY <1>1, <2>1, Unmoved DEF Ui
<1>4. CASE SessionReadFails /\ ui' # ui
  <2>1. PICK asked \in ui.hydrating : ui' = [ui EXCEPT !.hydrating = @ \ {asked}]
    BY <1>4 DEF SessionReadFails
  <2>2. PICK hydrating : hydrating = ui.hydrating \ {asked}
    OBVIOUS
  <2>3. ui' = [ui EXCEPT !.hydrating = hydrating]
    BY <2>1, <2>2
  <2>4. hydrating \in SUBSET (0..Len(log))
    BY <1>1, <2>2 DEF Ui
  <2>5. /\ ui' \in Ui /\ ui'.cursor = ui.cursor /\ ui'.over = ui.over /\ ui'.read = ui.read
        /\ ui'.replay = ui.replay /\ ui'.lastError = ui.lastError /\ ui'.error = ui.error
        /\ ui'.handled = ui.handled
    BY <1>1, <2>3, <2>4 DEF Ui
  <2> QED
    BY <1>1, <2>5, SoundAside, ReplayChain, Unmoved DEF Ui
<1>5. CASE RetryTimer
  <2>1. PICK s : s = [ui EXCEPT !.timer = FALSE]
    OBVIOUS
  <2>2. /\ s \in Ui /\ s.cursor = ui.cursor /\ s.over = ui.over /\ s.read = ui.read
        /\ s.replay = ui.replay /\ s.lastError = ui.lastError /\ s.error = ui.error
        /\ s.handled = ui.handled
    BY <1>1, <2>1 DEF Ui
  <2>3. Sound(s)
    BY <1>1, <2>2, SoundAside, ReplayChain
  <2> DEFINE replay == ui.replay # None
  <2>4. ui' = Recover(s, replay)
    BY <1>5, <2>1 DEF RetryTimer
  <2>5. replay \in BOOLEAN /\ (replay => s.replay # None)
    BY <2>2
  <2> HIDE DEF replay
  <2>6. Sound(ui') /\ ui'.cursor = s.cursor /\ ui'.replay = s.replay
    BY <1>1, <2>3, <2>4, <2>5, Recovered
  <2> QED
    BY <1>1, <2>2, <2>6, Unmoved DEF Ui
<1> QED
  BY <1>2, <1>3, <1>4, <1>5

(***************************************************************************)
(* AppendEvent: the panel has yet to hear of the event.                    *)
(***************************************************************************)
LEMMA AppendKeeps ==
    ASSUME Inv, AppendEvent
    PROVE  LogOK' /\ Sound(ui)' /\ Len(log') = Len(log) + 1
<1>1. Sound(ui) /\ ui \in Ui /\ LogOK /\ Len(log) \in Nat /\ log \in Seq(Kinds)
  BY DEF Inv, Sound, LogOK
<1>2. PICK kind \in IF log = <<>> THEN First ELSE After(log[Len(log)]) :
        log' = Append(log, kind)
  BY DEF AppendEvent
<1>3. kind \in Kinds
  <2>1. CASE log = <<>>
    BY <1>2, <2>1 DEF First, Kinds, Ends, Failures
  <2>2. CASE log # <<>>
    <3>1. \A k : After(k) \subseteq Kinds
      BY DEF After, Kinds, Ends, Failures
    <3> QED
      BY <1>2, <2>2, <3>1
  <2> QED
    BY <2>1, <2>2
<1>4. /\ log' \in Seq(Kinds) /\ Len(log') = Len(log) + 1
      /\ \A i \in 1..Len(log) : log'[i] = log[i]
      /\ log'[Len(log) + 1] = kind
  BY <1>1, <1>2, <1>3
<1>5. LogOK'
  <2>1. Len(log') <= MaxEvents
    BY <1>1, <1>4, AIRunEventsAssumption DEF AppendEvent
  <2>2. \A i \in 2..Len(log') : log'[i] \in After(log'[i - 1])
    <3> SUFFICES ASSUME NEW i \in 2..Len(log') PROVE log'[i] \in After(log'[i - 1])
      OBVIOUS
    <3>1. log'[i - 1] = log[i - 1] /\ Len(log) > 0
      BY <1>1, <1>4
    <3>2. CASE i <= Len(log)
      BY <1>1, <1>4, <3>1, <3>2 DEF LogOK
    <3>3. CASE i = Len(log) + 1
      <4>1. log # <<>> /\ i - 1 = Len(log)
        BY <1>1, <3>1, <3>3
      <4>2. log'[i] = kind /\ log'[i - 1] = log[Len(log)]
        BY <1>4, <3>1, <3>3, <4>1
      <4>3. kind \in After(log[Len(log)])
        BY <1>2, <4>1, Zenon
      <4> QED
        BY <4>2, <4>3
    <3> QED
      BY <1>1, <1>4, <3>2, <3>3
  <2>3. log'[1] \in First
    <3>1. CASE log = <<>>
      BY <1>2, <1>4, <3>1
    <3>2. CASE log # <<>>
      BY <1>1, <1>4, <3>2 DEF LogOK
    <3> QED
      BY <3>1, <3>2
  <2> QED
    BY <1>4, <2>1, <2>2, <2>3 DEF LogOK
<1>6. ui' = ui /\ ui.cursor \in 0..Len(log) /\ ui.lastError \in 0..Len(log)
  BY <1>1 DEF AppendEvent, Ui
<1>7. ui' \in Ui'
  <2>1. ui.hydrating \in SUBSET (0..Len(log')) /\ ui.pending \in SUBSET (1..Len(log'))
        /\ ui.cursor \in 0..Len(log') /\ ui.lastError \in 0..Len(log')
        /\ ui.error \in 0..Len(log')
    BY <1>1, <1>4 DEF Ui
  <2> QED
    BY <1>1, <1>6, <2>1 DEF Ui
<1>8. Len(log') <= PageSize => Len(log) <= PageSize
  BY <1>1, <1>4, AIRunEventsAssumption
<1>9. EndSeen(ui)'
  BY <1>1, <1>4, <1>6, <1>8 DEF Sound, EndSeen
<1>10. ErrorSeen(ui)'
  BY <1>1, <1>4, <1>6, <1>8 DEF Sound, ErrorSeen
<1>11. Caused(ui)'
  <2> SUFFICES ASSUME ui.handled PROVE FALSE
    BY <1>6 DEF Caused
  <2>1. log # <<>> /\ log[Len(log)] \in Ends
    BY <1>1 DEF Sound, Caused
  <2>2. kind \in After(log[Len(log)])
    BY <1>2, <2>1, Zenon
  <2> QED
    BY <2>1, <2>2 DEF After, Ends, Failures
<1>12. ASSUME NEW m \in 0..Len(log) PROVE TurnsAt(m)' = TurnsAt(m)
  BY <1>1, <1>4, <1>12 DEF TurnsAt
<1>13. ReadSound(ui)'
  <2> SUFFICES ASSUME ui.read # None PROVE ReadSound(ui)'
    BY <1>6 DEF ReadSound
  <2>1. /\ ui.read.after <= ui.read.asked /\ ui.read.asked <= Len(log)
        /\ ui.over \/ ui.read.after <= ui.cursor
        /\ ui.read.asked \in Nat /\ ui.read.after \in Nat
    BY <1>1, AIRunEventsAssumption DEF Sound, ReadSound, Ui, Read
  <2>2. ui.read.asked <= Len(log') /\ ui.read.after \in 0..Len(log)
    BY <1>1, <1>4, <2>1
  <2>3. TurnsAt(ui.read.after)' = TurnsAt(ui.read.after) /\ TurnsAt(ui.cursor)' = TurnsAt(ui.cursor)
    <3>1. ui.read.after' = ui.read.after /\ ui.cursor' = ui.cursor
      BY <1>6
    <3> QED
      BY <1>6, <1>12, <2>2, <3>1
  <2>4. Tallied(ui) => Tallied(ui)'
    BY <1>6, <2>3 DEF Tallied
  <2> QED
    BY <1>1, <1>6, <2>1, <2>2, <2>3, <2>4 DEF Sound, ReadSound
<1>14. Sound(ui)'
  BY <1>7, <1>9, <1>10, <1>11, <1>13 DEF Sound
<1> QED
  BY <1>4, <1>5, <1>14

(***************************************************************************)
(* The first state.                                                        *)
(***************************************************************************)
LEMMA InitInv == Init => Inv
<1> SUFFICES ASSUME Init PROVE Inv
  OBVIOUS
<1>1. LogOK
  BY AIRunEventsAssumption DEF Init, LogOK
<1>2. PICK t : t = [Idle EXCEPT !.sending = TRUE]
  OBVIOUS
<1>3. Sound(ui)
  BY <1>1, <1>2, IdleSound DEF Init
<1> QED
  BY <1>1, <1>3, AIRunEventsAssumption DEF Init, Inv

(***************************************************************************)
(* Every step keeps the invariant, and goes over no turn without showing   *)
(* it or leaving it to what a replay takes to be shown.                    *)
(***************************************************************************)
LEMMA NextInv ==
    ASSUME Inv, [Next]_vars
    PROVE  Inv' /\ Passed(ui, ui')
<1>0. /\ LogOK /\ Sound(ui) /\ ui \in Ui /\ Len(log) \in Nat /\ MaxOpens \in Nat
      /\ sent \subseteq 1..Len(log) /\ boot \in 0..Len(log) \cup {None}
      /\ boot # None => ui.replay = None
      /\ receipt \in BOOLEAN /\ opens \in 0..MaxOpens
  BY AIRunEventsAssumption DEF Inv, Sound, LogOK
<1>1. ASSUME ui' = ui PROVE Kept(ui, ui')
  BY <1>0, <1>1, Unmoved DEF Ui
<1>2. CASE AppendEvent
  <2>1. LogOK' /\ Sound(ui)' /\ Len(log') = Len(log) + 1
    BY <1>2, AppendKeeps
  <2>2. UNCHANGED <<ui, boot, receipt, opens>> /\ sent' = sent \cup {Len(log) + 1}
    BY <1>2 DEF AppendEvent
  <2>3. sent' \subseteq 1..Len(log')
    <3> SUFFICES ASSUME NEW n \in sent' PROVE n \in 1..Len(log')
      OBVIOUS
    <3>1. n \in sent \/ n = Len(log) + 1
      BY <2>2
    <3>2. n \in 1..Len(log) \/ n = Len(log) + 1
      BY <1>0, <3>1
    <3> QED
      BY <1>0, <2>1, <3>2
  <2>4. boot' \in 0..Len(log') \cup {None} /\ (boot' # None => ui'.replay = None)
    BY <1>0, <2>1, <2>2
  <2>5. Inv'
    BY <1>0, <2>1, <2>2, <2>3, <2>4 DEF Inv
  <2> QED
    BY <1>1, <2>2, <2>5 DEF Kept
<1>3. ASSUME Kept(ui, ui'), log' = log,
             sent' \subseteq sent, boot' \in 0..Len(log) \cup {None},
             boot' # None => ui'.replay = None,
             receipt' \in BOOLEAN, opens' \in 0..MaxOpens
      PROVE  Inv' /\ Passed(ui, ui')
  <2>1. LogOK'
    BY <1>0, <1>3 DEF LogOK
  <2>2. Sound(ui)'
    <3>1. \A m : TurnsAt(m)' = TurnsAt(m)
      BY <1>3 DEF TurnsAt
    <3>2. Cause' = Cause
      BY <1>3 DEF Cause
    <3> QED
      BY <1>3, <3>1, <3>2
      DEF Kept, Sound, Ui, EndSeen, ErrorSeen, Caused, Outlived, ReadSound, Tallied
  <2> QED
    BY <1>0, <1>3, <2>1, <2>2 DEF Inv, Kept
<1>4. CASE Deliver
  BY <1>0, <1>3, <1>4, DeliverKeeps DEF Deliver
<1>5. CASE Lose
  BY <1>0, <1>1, <1>3, <1>5 DEF Lose
<1>6. CASE SubmitReceipt
  BY <1>0, <1>3, <1>6, SubmitReceiptKeeps DEF SubmitReceipt
<1>7. CASE TrackRun
  BY <1>0, <1>3, <1>7, SubscribeKeeps DEF TrackRun, Subscribe
<1>8. CASE ReopenPanel
  BY <1>0, <1>3, <1>8, SubscribeKeeps DEF ReopenPanel, Subscribe
<1>9. CASE ReloadPage
  BY <1>0, <1>3, <1>9, SubscribeKeeps DEF ReloadPage, Subscribe
<1>10. CASE BootstrapAnswers
  BY <1>0, <1>3, <1>10, BootstrapKeeps DEF BootstrapAnswers
<1>11. CASE HydrationAnswers
  BY <1>0, <1>3, <1>11, HydrationKeeps DEF HydrationAnswers
<1>12. CASE ReadAnswers
  BY <1>0, <1>3, <1>12, ReadAnswersKeeps DEF ReadAnswers
<1>13. CASE ReadFails
  BY <1>0, <1>3, <1>13, FailureKeeps DEF ReadFails
<1>14. CASE SessionReadFails
  BY <1>0, <1>3, <1>14, FailureKeeps DEF SessionReadFails
<1>15. CASE RetryTimer
  BY <1>0, <1>3, <1>15, FailureKeeps DEF RetryTimer
<1>16. CASE UNCHANGED vars
  BY <1>0, <1>1, <1>3, <1>16 DEF vars
<1> QED
  BY <1>2, <1>4, <1>5, <1>6, <1>7, <1>8, <1>9, <1>10, <1>11, <1>12, <1>13, <1>14, <1>15, <1>16
  DEF Next, Panel

(***************************************************************************)
(* The invariant holds in every state: the panel never gets ahead of the   *)
(* ledger, a failure it has handled is shown with its cause, and a replay  *)
(* has counted every turn before the page it reads next.                   *)
(***************************************************************************)
THEOREM Invariant == Spec => []Inv
<1>1. Inv /\ [Next]_vars => Inv'
  BY NextInv
<1> QED
  BY <1>1, InitInv, PTL DEF Spec

(***************************************************************************)
(* Tracker, rows, reads and replays have their types in every state, the   *)
(* cursor and the gap buffer stay within the ledger, and the two bounds    *)
(* are kept.                                                               *)
(***************************************************************************)
THEOREM Types == Spec => []TypeOK
<1>1. Inv => TypeOK
  <2> SUFFICES ASSUME Inv PROVE TypeOK
    OBVIOUS
  <2>1. LogOK /\ ui \in Ui
    BY DEF Inv, Sound
  <2>2. \A r \in Rows : ui.rows[r] \in Row \cup {None}
    BY <2>1 DEF Ui
  <2>3. {ui.over, ui.handled, ui.sending, ui.mine, ui.tracked, ui.keyed, ui.timer}
            \subseteq BOOLEAN
    BY <2>1 DEF Ui
  <2>4. /\ ui.cursor \in 0..Len(log) /\ ui.row \in {None} \cup Rows
        /\ {ui.done, ui.turn} \subseteq Text
        /\ {ui.lastError, ui.error} \subseteq 0..Len(log)
        /\ ui.pending \subseteq 1..Len(log) /\ ui.hydrating \subseteq 0..Len(log)
        /\ ui.read \in Read \cup {None} /\ ui.replay \in Replay \cup {None}
    BY <2>1 DEF Ui
  <2> QED
    BY <2>1, <2>2, <2>3, <2>4 DEF Inv, LogOK, TypeOK
<1> QED
  BY <1>1, Invariant, PTL

(***************************************************************************)
(* A failed run is shown with the message it failed with, or with that of  *)
(* an error the run got over: the latter only if its end has no error      *)
(* event of its own or the run is longer than a page (applyTerminal,       *)
(* failRun).                                                               *)
(***************************************************************************)
THEOREM Causes == Spec => []CauseShown
<1>1. Inv => CauseShown
  BY DEF Inv, Sound, Caused, CauseShown
<1> QED
  BY <1>1, Invariant, PTL

(***************************************************************************)
(* The panel passes the end of no turn unseen.  It shows the turn's text   *)
(* in full, whatever the runtime lost and whatever a hydration put in the  *)
(* place of the deltas; or the turn came in a replay and is left to the    *)
(* message of the ledger that it was part of, or to a projection that was  *)
(* live since; or its number went to the end made of a snapshot of a run   *)
(* longer than a page (applyAIRunEvent, applyAIRunReplayEvent).            *)
(***************************************************************************)
THEOREM Turns == Spec => TurnsShown
<1>1. ASSUME Inv, [Next]_vars
      PROVE  \A n \in (ui.cursor + 1)..ui'.cursor :
                 /\ log[n] = "turn"
                 /\ Len(log) <= PageSize \/ n < ui'.cursor \/ ~ui'.over
                 => Shows(ui', TurnText(n)) \/ LeftToShown(ui', n)
  <2> SUFFICES ASSUME NEW n \in (ui.cursor + 1)..ui'.cursor,
                      log[n] = "turn", Len(log) <= PageSize \/ n < ui'.cursor \/ ~ui'.over
               PROVE  Shows(ui', TurnText(n)) \/ LeftToShown(ui', n)
    OBVIOUS
  <2>1. Passed(ui, ui') /\ Inv'
    BY <1>1, NextInv
  <2>2. Showing(ui', TurnText(n)) \/ LeftToShown(ui', n)
    BY <2>1 DEF Passed
  <2>3. ui'.row \in Rows \cup {None}
    BY <2>1 DEF Inv, Sound, Ui
  <2> QED
    BY <2>2, <2>3 DEF Showing, Shown, Shows
<1>2. Inv /\ [Next]_vars =>
          [\A n \in (ui.cursor + 1)..ui'.cursor :
               /\ log[n] = "turn"
               /\ Len(log) <= PageSize \/ n < ui'.cursor \/ ~ui'.over
               => Shows(ui', TurnText(n)) \/ LeftToShown(ui', n)]_vars
  BY <1>1
<1> QED
  BY <1>2, Invariant, PTL DEF Spec, TurnsShown
=============================================================================
