-------------------------- MODULE AuditChainProofs --------------------------
(***************************************************************************)
(* What is true of the chain for any number of writers, runs and clock     *)
(* steps.  The times rest on Backed: the time of an entry is one that the  *)
(* store's clock had read by then.  The beats rest on LatestBeat.  That an *)
(* outcome is there once rests on the lock (Locked): what outcomeHeld did  *)
(* not find (Fresh) nobody has inserted since.                             *)
(***************************************************************************)
EXTENDS AuditChain, FiniteSetTheorems, TLAPS

LatestBeat == Beats # {} => \E i \in Beats : \A j \in Beats : j <= i

Backed == \A i \in DOMAIN chain : \E j \in 1..i : chain[i].at <= chain[j].clock

InLock(w) == pc[w] \in {"reading", "writing"}

Locked == \A w \in Writers : InLock(w) => lock = w

Fresh == \A w \in Writers : InLock(w) /\ what[w] \in Runs => ~Holds(what[w])

SettlesHeld == \A w \in Writers : pc[w] = "settling" => what[w] \in Runs /\ Holds(what[w])

\* The next entry is e.
Adds(e) == chain' = Append(chain, e)

-----------------------------------------------------------------------------

(* What an append does to the chain. *)
LEMMA AppendFacts ==
  ASSUME chain \in Seq(Entries), NEW e \in Entries, Adds(e)
  PROVE  /\ chain' \in Seq(Entries)
         /\ Len(chain) \in Nat
         /\ DOMAIN chain = 1..Len(chain)
         /\ DOMAIN chain' = 1..(Len(chain) + 1)
         /\ \A i \in 1..Len(chain) : chain'[i] = chain[i]
         /\ chain'[Len(chain) + 1] = e
  BY DEF Adds

(* The fields of an entry of the chain. *)
LEMMA Fields ==
  ASSUME chain \in Seq(Entries), NEW i \in DOMAIN chain
  PROVE  /\ chain[i] \in Entries
         /\ chain[i].at \in Nat /\ chain[i].beat \in Nat /\ chain[i].count \in Nat
         /\ chain[i].clock \in Times /\ chain[i].clock \in Nat
         /\ i \in Nat /\ i \in 1..Len(chain) /\ Len(chain) \in Nat
  <1>1. chain[i] \in Entries /\ i \in 1..Len(chain) /\ Len(chain) \in Nat
    OBVIOUS
  <1> QED BY <1>1 DEF Entries, Times

(* lastSpan finds the newest beat. *)
LEMMA LastSpanFacts ==
  ASSUME chain \in Seq(Entries), LatestBeat
  PROVE  /\ Beats = {} => LastSpan = 0
         /\ Beats # {} => LastSpan \in Beats /\ \A j \in Beats : j <= LastSpan
         /\ LastSpan \in 0..Len(chain)
         /\ LastSpan = 0 <=> Beats = {}
         /\ Beats \subseteq 1..Len(chain)
  <1>1. Beats \subseteq 1..Len(chain) /\ Len(chain) \in Nat
    BY DEF Beats
  <1>2. CASE Beats = {}
    BY <1>1, <1>2 DEF LastSpan
  <1>3. CASE Beats # {}
    <2>1. \E i \in Beats : \A j \in Beats : j <= i
      BY <1>3 DEF LatestBeat
    <2>2. LastSpan = CHOOSE i \in Beats : \A j \in Beats : j <= i
      BY <1>3 DEF LastSpan
    <2>3. LastSpan \in Beats /\ \A j \in Beats : j <= LastSpan
      BY <2>1, <2>2
    <2> QED BY <1>1, <1>3, <2>3
  <1> QED BY <1>2, <1>3

(* The number and the count of the next beat. *)
LEMMA NextBeatType ==
  ASSUME chain \in Seq(Entries), LatestBeat
  PROVE  /\ NextSpanBeat(Len(chain), LastSpan).beat \in Nat
         /\ NextSpanBeat(Len(chain), LastSpan).count \in Nat
  <1>1. Len(chain) \in Nat /\ LastSpan \in 0..Len(chain)
    BY LastSpanFacts
  <1>2. CASE LastSpan = 0
    BY <1>1, <1>2 DEF NextSpanBeat
  <1>3. CASE LastSpan # 0
    <2>1. LastSpan \in DOMAIN chain
      BY <1>1, <1>3
    <2>2. chain[LastSpan].beat \in Nat
      BY <2>1, Fields
    <2> QED BY <1>1, <1>3, <2>2 DEF NextSpanBeat
  <1> QED BY <1>2, <1>3

(* The three ways StampAppendTime dates an entry. *)
LEMMA Stamped ==
  ASSUME chain \in Seq(Entries), clock \in Times, NEW t \in Times \cup {Zero},
         NEW at, at = StampAppendTime(Len(chain), t, clock)
  PROVE  /\ at \in Nat
         /\ \/ at <= clock /\ (Len(chain) # 0 => chain[Len(chain)].at <= at)
            \/ Len(chain) # 0 /\ at = chain[Len(chain)].at /\ at <= clock + MaxAhead
            \/ Len(chain) # 0 /\ at = clock + MaxAhead /\ at < chain[Len(chain)].at
  <1>1. Len(chain) \in Nat /\ clock \in Nat /\ MaxAhead \in Nat /\ MaxClock \in Nat
    BY ConstantsAssumption DEF Times
  <1>2. Len(chain) # 0 => chain[Len(chain)].at \in Nat
    BY <1>1, Fields
  <1> DEFINE own == IF t = Zero \/ t > clock THEN clock ELSE t
             pin == IF chain[Len(chain)].at > clock + MaxAhead THEN clock + MaxAhead
                    ELSE chain[Len(chain)].at
  <1>3. own \in Nat /\ own <= clock
    BY <1>1 DEF Times, Zero
  <1>4. at = IF Len(chain) > 0 /\ own < chain[Len(chain)].at THEN pin ELSE own
    BY DEF StampAppendTime
  <1> QED BY <1>1, <1>2, <1>3, <1>4

(* The entry an accepted insert adds. *)
LEMMA EntryFacts ==
  ASSUME TypeOK, LatestBeat, NEW w \in Writers, NEW t \in Times \cup {Zero}, ~Refused(w)
  PROVE  /\ Entry(w, t) \in Entries
         /\ Entry(w, t).what = what[w] /\ Entry(w, t).clock = clock
         /\ Entry(w, t).at \in Nat
         /\ what[w] = Beat =>
              /\ Entry(w, t).at = clock
              /\ Entry(w, t).beat = NextSpanBeat(Len(chain), LastSpan).beat
              /\ Entry(w, t).count = NextSpanBeat(Len(chain), LastSpan).count
              /\ BeatAdvances(Len(chain), LastSpan, clock)
         /\ what[w] # Beat => Entry(w, t).at = StampAppendTime(Len(chain), t, clock)
  <1>1. head[w] = Len(chain) /\ chain \in Seq(Entries) /\ clock \in Times
    BY DEF Refused, TypeOK
  <1>2. what[w] \in Runs \cup Notes \cup {Beat} /\ clock \in Nat
    BY <1>1, ConstantsAssumption DEF TypeOK, Times
  <1>3. CASE what[w] = Beat
    <2>1. BeatAdvances(Len(chain), LastSpan, clock)
      BY <1>1, <1>3 DEF Refused
    <2>2. Entry(w, t) = [what |-> Beat, at |-> clock, clock |-> clock,
                         beat |-> NextSpanBeat(Len(chain), LastSpan).beat,
                         count |-> NextSpanBeat(Len(chain), LastSpan).count]
      BY <1>1, <1>3 DEF Entry
    <2>3. /\ NextSpanBeat(Len(chain), LastSpan).beat \in Nat
          /\ NextSpanBeat(Len(chain), LastSpan).count \in Nat
      BY <1>1, NextBeatType
    <2> HIDE DEF Beat
    <2> QED BY <1>1, <1>2, <1>3, <2>1, <2>2, <2>3 DEF Entries
  <1>4. CASE what[w] # Beat
    <2>1. Entry(w, t) = [what |-> what[w], at |-> StampAppendTime(Len(chain), t, clock),
                         clock |-> clock, beat |-> 0, count |-> 0]
      BY <1>1, <1>4 DEF Entry
    <2>2. StampAppendTime(Len(chain), t, clock) \in Nat
      BY <1>1, Stamped
    <2> QED BY <1>1, <1>2, <1>4, <2>1, <2>2 DEF Entries
  <1> QED BY <1>3, <1>4

(* Only an accepted insert changes the chain. *)
LEMMA ChainSteps ==
  ASSUME Next
  PROVE  \/ UNCHANGED chain
         \/ \E w \in Writers : \E t \in Times \cup {Zero} :
              pc[w] = "writing" /\ ~Refused(w) /\ Adds(Entry(w, t))
  BY DEF Next, Tick, AppendNote, EndRun, CommitOwed, EmitBeat, Lock, ReadHead, Write, Fails, Settle, Adds
-----------------------------------------------------------------------------

ChainInv ==
  /\ chain \in Seq(Entries) /\ LatestBeat
  /\ Backed /\ NotAhead /\ InversionShowsStep
  /\ BeatsAttest

(* A chain that does not change keeps what is true of it. *)
LEMMA ChainKept ==
  ASSUME ChainInv, UNCHANGED chain
  PROVE  ChainInv'
  <1>1. Beats' = Beats /\ chain' = chain
    BY DEF Beats
  <1>2. (chain \in Seq(Entries))'
    BY <1>1 DEF ChainInv, Entries, Times
  <1>3. LatestBeat'
    BY <1>1 DEF ChainInv, LatestBeat
  <1>4. Backed' /\ NotAhead' /\ InversionShowsStep'
    BY <1>1 DEF ChainInv, Backed, NotAhead, InversionShowsStep
  <1>5. BeatsAttest'
    BY <1>1 DEF ChainInv, BeatsAttest
  <1> QED BY <1>2, <1>3, <1>4, <1>5 DEF ChainInv

(* An accepted insert keeps the times in order, but for a step of the clock. *)
LEMMA TimesKept ==
  ASSUME TypeOK, ChainInv, NEW w \in Writers, NEW t \in Times \cup {Zero}, ~Refused(w),
         Adds(Entry(w, t))
  PROVE  (Backed /\ NotAhead /\ InversionShowsStep)'
  <1> DEFINE e == Entry(w, t)
             n == Len(chain)
  <1>1. /\ e \in Entries /\ e.clock = clock /\ e.at \in Nat
        /\ what[w] = Beat => e.at = clock /\ BeatAdvances(n, LastSpan, clock)
        /\ what[w] # Beat => e.at = StampAppendTime(n, t, clock)
    BY EntryFacts DEF ChainInv
  <1>2. chain \in Seq(Entries) /\ clock \in Times /\ clock \in Nat /\ MaxAhead \in Nat
    BY ConstantsAssumption DEF TypeOK, Times
  <1>3. /\ n \in Nat /\ DOMAIN chain = 1..n /\ DOMAIN chain' = 1..(n + 1)
        /\ \A i \in 1..n : chain'[i] = chain[i]
        /\ chain'[n + 1] = e
    BY <1>1, <1>2, AppendFacts
  <1>4. \A i \in 1..n : chain[i].at \in Nat /\ chain[i].clock \in Nat
    BY <1>2, <1>3, Fields
  <1>5. \/ e.at <= clock /\ (n # 0 => chain[n].at <= e.at)
        \/ n # 0 /\ e.at = chain[n].at /\ e.at <= clock + MaxAhead
        \/ n # 0 /\ e.at = clock + MaxAhead /\ e.at < chain[n].at
    <2>1. CASE what[w] = Beat
      BY <1>1, <1>2, <1>3, <1>4, <2>1 DEF BeatAdvances
    <2>2. CASE what[w] # Beat
      BY <1>1, <1>2, <2>2, Stamped
    <2> QED BY <2>1, <2>2
  <1> HIDE DEF e, n
  <1>6. n # 0 => \E j \in 1..n : chain[n].at <= chain[j].clock
    BY <1>3 DEF ChainInv, Backed
  <1>7. Backed'
    <2> SUFFICES ASSUME NEW i \in 1..(n + 1)
                 PROVE  \E j \in 1..i : chain'[i].at <= chain'[j].clock
      BY <1>3 DEF Backed
    <2>1. CASE i \in 1..n
      <3>1. PICK j \in 1..i : chain[i].at <= chain[j].clock
        BY <1>3, <2>1 DEF ChainInv, Backed
      <3> QED BY <1>3, <2>1, <3>1
    <2>2. CASE i = n + 1
      <3>1. CASE e.at <= clock
        BY <1>1, <1>3, <2>2, <3>1
      <3>2. CASE n # 0 /\ e.at <= chain[n].at
        <4>1. PICK j \in 1..n : chain[n].at <= chain[j].clock
          BY <1>6, <3>2
        <4>2. e.at <= chain[j].clock
          BY <1>1, <1>3, <1>4, <3>2, <4>1
        <4> QED BY <1>3, <2>2, <4>1, <4>2
      <3> QED BY <1>1, <1>2, <1>3, <1>4, <1>5, <3>1, <3>2
    <2> QED BY <1>3, <2>1, <2>2
  <1>8. NotAhead'
    <2>1. e.at <= e.clock + MaxAhead
      BY <1>1, <1>2, <1>5
    <2> QED BY <1>3, <2>1 DEF ChainInv, NotAhead
  <1>9. InversionShowsStep'
    <2> SUFFICES ASSUME NEW i \in 2..(n + 1), chain'[i].at < chain'[i - 1].at
                 PROVE  \E j \in 1..(i - 1) : chain'[j].clock > chain'[i].clock + MaxAhead
      BY <1>3 DEF InversionShowsStep
    <2>1. CASE i \in 2..n
      <3>1. PICK j \in 1..(i - 1) : chain[j].clock > chain[i].clock + MaxAhead
        BY <1>3, <2>1 DEF ChainInv, InversionShowsStep
      <3> QED BY <1>3, <2>1, <3>1
    <2>2. CASE i = n + 1
      <3>1. n # 0 /\ chain'[i] = e /\ chain'[i - 1] = chain[n]
        BY <1>3, <2>2
      <3>2. e.at = clock + MaxAhead /\ e.at < chain[n].at
        BY <1>1, <1>2, <1>3, <1>4, <1>5, <3>1
      <3>3. PICK j \in 1..n : chain[n].at <= chain[j].clock
        BY <1>6, <3>1
      <3>4. chain[j].clock > e.clock + MaxAhead
        BY <1>1, <1>2, <1>3, <1>4, <3>1, <3>2, <3>3
      <3> QED BY <1>3, <2>2, <3>1, <3>3, <3>4
    <2> QED BY <1>3, <2>1, <2>2
  <1> QED BY <1>7, <1>8, <1>9

(* An accepted insert keeps the beats numbered, counted and in time. *)
LEMMA BeatsKept ==
  ASSUME TypeOK, ChainInv, NEW w \in Writers, NEW t \in Times \cup {Zero}, ~Refused(w),
         Adds(Entry(w, t))
  PROVE  (LatestBeat /\ BeatsAttest)'
  <1> DEFINE e == Entry(w, t)
             n == Len(chain)
             last == LastSpan
  <1>1. /\ e \in Entries /\ e.what = what[w]
        /\ what[w] = Beat =>
             /\ e.at = clock /\ BeatAdvances(n, last, clock)
             /\ e.beat = NextSpanBeat(n, last).beat
             /\ e.count = NextSpanBeat(n, last).count
    BY EntryFacts DEF ChainInv
  <1>2. chain \in Seq(Entries) /\ clock \in Nat
    BY ConstantsAssumption DEF TypeOK, Times
  <1>3. /\ n \in Nat /\ DOMAIN chain = 1..n /\ DOMAIN chain' = 1..(n + 1)
        /\ \A i \in 1..n : chain'[i] = chain[i]
        /\ chain'[n + 1] = e
    BY <1>1, <1>2, AppendFacts
  <1>4. /\ Beats = {} => last = 0
        /\ Beats # {} => last \in Beats /\ \A j \in Beats : j <= last
        /\ last \in 0..n /\ (last = 0 <=> Beats = {})
        /\ Beats \subseteq 1..n
    BY <1>2, LastSpanFacts DEF ChainInv
  <1>5. \A i \in 1..n : chain[i].at \in Nat /\ chain[i].beat \in Nat /\ chain[i].count \in Nat
    BY <1>2, <1>3, Fields
  <1>6. Beats' = IF what[w] = Beat THEN Beats \cup {n + 1} ELSE Beats
    BY <1>1, <1>3 DEF Beats
  <1> HIDE DEF e, n, last
  <1>7. LatestBeat'
    <2>1. CASE what[w] = Beat
      <3>1. n + 1 \in Beats' /\ \A j \in Beats' : j <= n + 1
        BY <1>3, <1>4, <1>6, <2>1
      <3> QED BY <3>1 DEF LatestBeat
    <2>2. CASE what[w] # Beat
      BY <1>6, <2>2 DEF LatestBeat, ChainInv
    <2> QED BY <2>1, <2>2
  <1>8. ASSUME NEW i \in Beats
        PROVE  /\ {j \in Beats' : j < i} = {j \in Beats : j < i}
               /\ i \in 1..n
               /\ chain'[i] = chain[i]
               /\ \A j \in {k \in Beats : k < i} : chain'[j] = chain[j]
    BY <1>3, <1>4, <1>6
  <1>9. ASSUME what[w] = Beat
        PROVE  /\ {j \in Beats' : j < n + 1} = Beats
               /\ e.beat = Cardinality(Beats) + 1
               /\ e.count = Cardinality({j \in 1..n : \A k \in Beats : k < j})
               /\ \A j \in Beats : chain[j].at < e.at
    <2> DEFINE S == {j \in 1..n : \A k \in Beats : k < j}
    <2>1. {j \in Beats' : j < n + 1} = Beats
      <3>1. (\A j \in Beats : j < n + 1) /\ ~(n + 1 < n + 1)
        BY <1>3, <1>4
      <3>2. Beats' = Beats \cup {n + 1}
        BY <1>6, <1>9
      <3> QED BY <3>1, <3>2, Zenon
    <2>2. CASE Beats = {}
      <3>1. e.beat = 1 /\ e.count = n
        BY <1>1, <1>4, <1>9, <2>2 DEF NextSpanBeat
      <3>2. S = 1..n
        BY <2>2
      <3>3. Cardinality(1..n) = n /\ Cardinality(Beats) = 0
        BY <1>3, <2>2, FS_Interval, FS_EmptySet
      <3>4. e.beat = Cardinality(Beats) + 1 /\ e.count = Cardinality(S)
        <4> HIDE DEF S
        <4> QED BY <3>1, <3>2, <3>3
      <3> QED BY <2>1, <2>2, <3>4
    <2>3. CASE Beats # {}
      <3>1. last \in Beats /\ last \in 1..n /\ \A j \in Beats : j <= last
        BY <1>3, <1>4, <2>3
      <3>2. e.beat = chain[last].beat + 1 /\ e.count = n - last
        BY <1>1, <1>3, <1>4, <1>9, <3>1 DEF NextSpanBeat
      <3>3. {j \in Beats : j < last} = Beats \ {last}
        <4>1. ASSUME NEW j \in Beats
              PROVE  j < last <=> j # last
          <5>1. j \in 1..n /\ j <= last
            BY <1>4, <3>1, Zenon
          <5>2. j \in Int /\ last \in Int
            BY <1>3, <3>1, <5>1
          <5> HIDE DEF last, Beats
          <5> QED BY <5>1, <5>2
        <4> QED BY <4>1, Zenon
      <3>4. IsFiniteSet(Beats)
        <4>1. IsFiniteSet(1..n)
          BY <1>3, FS_Interval
        <4> QED BY <1>4, <4>1, FS_Subset
      <3>5. Cardinality(Beats \ {last}) = Cardinality(Beats) - 1 /\ Cardinality(Beats) \in Nat
        BY <3>1, <3>4, FS_RemoveElement, FS_CardinalityType
      <3>6. chain[last].beat = Cardinality(Beats \ {last}) + 1
        BY <3>1, <3>3 DEF ChainInv, BeatsAttest
      <3>7. S = (last + 1)..n
        BY <1>3, <1>4, <3>1
      <3>8. Cardinality((last + 1)..n) = n - last
        <4>1. last \in Int /\ n \in Int /\ last + 1 \in Int
          BY <1>3, <3>1
        <4>2. Cardinality((last + 1)..n) = IF last + 1 > n THEN 0 ELSE n - (last + 1) + 1
          BY <4>1, FS_Interval
        <4> QED BY <1>3, <3>1, <4>1, <4>2
      <3>9. \A j \in Beats : chain[j].at < e.at
        <4>1. chain[last].at < e.at
          BY <1>1, <1>2, <1>3, <1>5, <1>9, <3>1 DEF BeatAdvances
        <4>2. \A j \in Beats \ {last} : chain[j].at < chain[last].at
          BY <3>1, <3>3 DEF ChainInv, BeatsAttest
        <4>3. e.at \in Nat /\ \A j \in Beats : chain[j].at \in Nat
          BY <1>1, <1>2, <1>4, <1>5, <1>9
        <4> QED BY <3>1, <4>1, <4>2, <4>3
      <3>10. e.beat = Cardinality(Beats) + 1 /\ e.count = Cardinality(S)
        <4> HIDE DEF S
        <4> QED BY <3>2, <3>5, <3>6, <3>7, <3>8
      <3> QED BY <2>1, <3>9, <3>10
    <2> QED BY <2>2, <2>3
  <1>10. BeatsAttest'
    <2> SUFFICES ASSUME NEW i \in Beats'
                 PROVE  /\ chain'[i].beat = Cardinality({j \in Beats' : j < i}) + 1
                        /\ chain'[i].count = Cardinality({j \in 1..(i - 1) :
                                                \A k \in {m \in Beats' : m < i} : k < j})
                        /\ \A j \in {m \in Beats' : m < i} : chain'[j].at < chain'[i].at
      BY DEF BeatsAttest
    <2>1. CASE i \in Beats
      BY <1>8, <2>1 DEF ChainInv, BeatsAttest
    <2>2. CASE i \notin Beats
      <3>1. what[w] = Beat /\ i = n + 1
        BY <1>6, <2>2
      <3>2. i - 1 = n /\ chain'[i] = e /\ \A j \in Beats : chain'[j] = chain[j]
        BY <1>3, <1>4, <3>1
      <3> QED BY <1>9, <3>1, <3>2
    <2> QED BY <2>1, <2>2
  <1> QED BY <1>7, <1>10

(* Every step keeps what is true of the chain. *)
LEMMA ChainStep ==
  ASSUME TypeOK, ChainInv, [Next]_vars
  PROVE  ChainInv'
  <1>1. CASE UNCHANGED chain
    BY <1>1, ChainKept
  <1>2. CASE \E w \in Writers : \E t \in Times \cup {Zero} :
               pc[w] = "writing" /\ ~Refused(w) /\ Adds(Entry(w, t))
    <2>1. PICK w \in Writers, t \in Times \cup {Zero} : ~Refused(w) /\ Adds(Entry(w, t))
      BY <1>2
    <2>2. chain \in Seq(Entries) /\ LatestBeat
      BY DEF ChainInv
    <2>3. (chain \in Seq(Entries))'
      <3>1. Entry(w, t) \in Entries
        BY <2>1, <2>2, EntryFacts
      <3>2. chain' \in Seq(Entries)
        BY <2>1, <2>2, <3>1, AppendFacts
      <3> QED BY <3>2 DEF Entries, Times
    <2>4. (Backed /\ NotAhead /\ InversionShowsStep)'
      BY <2>1, TimesKept
    <2>5. (LatestBeat /\ BeatsAttest)'
      BY <2>1, BeatsKept
    <2> QED BY <2>3, <2>4, <2>5 DEF ChainInv
  <1> QED BY <1>1, <1>2, ChainSteps DEF vars

(* The types of everything but the chain. *)
LEMMA TypeStep ==
  ASSUME TypeOK, ChainInv', [Next]_vars
  PROVE  TypeOK'
  <1>1. CASE Next
    <2> USE <1>1, ConstantsAssumption DEF TypeOK, ChainInv, Times
    <2>1. CASE Tick
      BY <2>1 DEF Tick, Fault, writer
    <2>2. ASSUME NEW w \in Writers, NEW n \in Notes, AppendNote(w, n) PROVE TypeOK'
      BY <2>2 DEF AppendNote, Starts
    <2>3. ASSUME NEW w \in Writers, NEW r \in Runs, EndRun(w, r) PROVE TypeOK'
      BY <2>3 DEF EndRun, Starts, writer
    <2>4. ASSUME NEW w \in Writers, NEW r \in Runs, CommitOwed(w, r) PROVE TypeOK'
      BY <2>4 DEF CommitOwed, Starts
    <2>5. ASSUME NEW w \in Writers, EmitBeat(w) PROVE TypeOK'
      BY <2>5 DEF EmitBeat, Starts
    <2>6. ASSUME NEW w \in Writers, Lock(w) PROVE TypeOK'
      BY <2>6 DEF Lock
    <2>7. ASSUME NEW w \in Writers, ReadHead(w) PROVE TypeOK'
      BY <2>7 DEF ReadHead
    <2>8. ASSUME NEW w \in Writers, Write(w) PROVE TypeOK'
      <3>1. UNCHANGED <<clock, ended, owed>> /\ (lock \in Writers \cup {None})'
        BY <2>8 DEF Write, Unlock
      <3>2. (faults \in 0..MaxFaults)'
        BY <2>8 DEF Write, Fault
      <3>3. (pc \in [Writers -> {"idle", "locking", "reading", "writing", "settling"}])'
        BY <2>8 DEF Write, Rests
      <3>4. (what \in [Writers -> Runs \cup Notes \cup {Beat}] /\ head \in [Writers -> Nat])'
        <4>1. Rests(w) \/ UNCHANGED <<what, head>>
          BY <2>8 DEF Write
        <4>2. (what \in [Writers -> Runs \cup Notes \cup {Beat}])'
          BY <4>1 DEF Rests
        <4>3. (head \in [Writers -> Nat])'
          BY <4>1 DEF Rests
        <4> QED BY <4>2, <4>3
      <3> QED BY <3>1, <3>2, <3>3, <3>4
    <2>9. ASSUME NEW w \in Writers, Fails(w) PROVE TypeOK'
      BY <2>9 DEF Fails, Unlock, Rests, Fault
    <2>10. ASSUME NEW w \in Writers, Settle(w) PROVE TypeOK'
      BY <2>10 DEF Settle, Rests, Fault
    <2> QED BY <2>1, <2>2, <2>3, <2>4, <2>5, <2>6, <2>7, <2>8, <2>9, <2>10 DEF Next
  <1>2. CASE UNCHANGED vars
    BY <1>2 DEF TypeOK, vars, writer, Times, Entries
  <1> QED BY <1>1, <1>2

(* The empty chain. *)
LEMMA InitChain == Init => TypeOK /\ ChainInv
  <1> SUFFICES ASSUME Init PROVE TypeOK /\ ChainInv
    OBVIOUS
  <1>1. chain = <<>> /\ chain \in Seq(Entries) /\ DOMAIN chain = {}
    BY DEF Init
  <1>2. ChainInv
    BY <1>1 DEF ChainInv, LatestBeat, Beats, Backed, NotAhead, InversionShowsStep, BeatsAttest
  <1> QED BY <1>1, <1>2, ConstantsAssumption DEF Init, TypeOK, Times

LEMMA Chained == Spec => [](TypeOK /\ ChainInv)
  <1>1. TypeOK /\ ChainInv /\ [Next]_vars => TypeOK' /\ ChainInv'
    BY ChainStep, TypeStep
  <1> QED BY <1>1, InitChain, PTL DEF Spec

(* The model's types: an entry's time, number and count included, for any clocks and writers. *)
THEOREM TypeCorrect == Spec => []TypeOK
  BY Chained, PTL

(* No entry is dated further ahead of the store's clock than MaxTimeAhead (StampAppendTime). *)
THEOREM NeverAhead == Spec => []NotAhead
  <1>1. ChainInv => NotAhead
    BY DEF ChainInv
  <1> QED BY <1>1, Chained, PTL

(* Times run backward only where the store's clock was stepped back by more than MaxTimeAhead. *)
THEOREM InversionsAreSteps == Spec => []InversionShowsStep
  <1>1. ChainInv => InversionShowsStep
    BY DEF ChainInv
  <1> QED BY <1>1, Chained, PTL

(* AppendSpanBeat numbers its beats without a gap, counts exactly, and its times advance. *)
THEOREM Attestation == Spec => []BeatsAttest
  <1>1. ChainInv => BeatsAttest
    BY DEF ChainInv
  <1> QED BY <1>1, Chained, PTL
-----------------------------------------------------------------------------

(* What the chain holds it keeps. *)
LEMMA HeldStays ==
  ASSUME TypeOK, ChainInv, [Next]_vars, NEW x, Holds(x)
  PROVE  Holds(x)'
  <1>1. CASE UNCHANGED chain
    BY <1>1 DEF Holds
  <1>2. CASE \E w \in Writers : \E t \in Times \cup {Zero} :
               pc[w] = "writing" /\ ~Refused(w) /\ Adds(Entry(w, t))
    <2>1. PICK w \in Writers, t \in Times \cup {Zero} : ~Refused(w) /\ Adds(Entry(w, t))
      BY <1>2
    <2>2. Entry(w, t) \in Entries /\ chain \in Seq(Entries)
      BY <2>1, EntryFacts DEF ChainInv
    <2>3. /\ Len(chain) \in Nat /\ DOMAIN chain = 1..Len(chain)
          /\ DOMAIN chain' = 1..(Len(chain) + 1)
          /\ \A i \in 1..Len(chain) : chain'[i] = chain[i]
      BY <2>1, <2>2, AppendFacts
    <2> QED BY <2>3 DEF Holds
  <1> QED BY <1>1, <1>2, ChainSteps DEF vars

(* Only the entry that is inserted comes to the chain. *)
LEMMA HeldIsAdded ==
  ASSUME TypeOK, ChainInv, NEW w \in Writers, NEW t \in Times \cup {Zero}, ~Refused(w),
         Adds(Entry(w, t)), NEW x
  PROVE  Holds(x)' <=> Holds(x) \/ x = what[w]
  <1>1. Entry(w, t) \in Entries /\ Entry(w, t).what = what[w] /\ chain \in Seq(Entries)
    BY EntryFacts DEF ChainInv
  <1>2. /\ Len(chain) \in Nat /\ DOMAIN chain = 1..Len(chain)
        /\ DOMAIN chain' = 1..(Len(chain) + 1)
        /\ \A i \in 1..Len(chain) : chain'[i] = chain[i]
        /\ chain'[Len(chain) + 1].what = what[w]
    BY <1>1, AppendFacts
  <1> QED BY <1>2 DEF Holds

OnceInv == Locked /\ Fresh /\ OnceEach

(* A step that leaves the chain alone lets nobody into the lock but its holder. *)
LEMMA OnceKept ==
  ASSUME TypeOK, OnceInv, UNCHANGED chain, [Next]_vars
  PROVE  OnceInv'
  <1>1. ASSUME NEW x PROVE Holds(x)' <=> Holds(x)
    BY DEF Holds
  <1>2. OnceEach'
    BY DEF OnceInv, OnceEach
  <1>3. (Locked /\ Fresh)'
    <2> SUFFICES ASSUME NEW v \in Writers, InLock(v)'
                 PROVE  lock' = v /\ (what'[v] \in Runs => ~Holds(what'[v]))
      BY <1>1 DEF Locked, Fresh
    <2>1. pc \in [Writers -> {"idle", "locking", "reading", "writing", "settling"}]
          /\ what \in [Writers -> Runs \cup Notes \cup {Beat}]
      BY DEF TypeOK
    <2>2. InLock(v) => lock = v /\ (what[v] \in Runs => ~Holds(what[v]))
      BY DEF OnceInv, Locked, Fresh
    <2>3. ASSUME NEW u \in Writers, u # v, InLock(v) PROVE lock # u
      BY <2>2, <2>3
    <2>4. CASE Tick
      BY <2>2, <2>4 DEF Tick, writer, InLock
    <2>5. ASSUME NEW w \in Writers, NEW n \in Notes, AppendNote(w, n)
          PROVE  lock' = v /\ (what'[v] \in Runs => ~Holds(what'[v]))
      BY <2>1, <2>2, <2>5 DEF AppendNote, Starts, InLock
    <2>6. ASSUME NEW w \in Writers, NEW r \in Runs, EndRun(w, r) \/ CommitOwed(w, r)
          PROVE  lock' = v /\ (what'[v] \in Runs => ~Holds(what'[v]))
      BY <2>1, <2>2, <2>6 DEF EndRun, CommitOwed, Starts, InLock, writer
    <2>7. ASSUME NEW w \in Writers, EmitBeat(w)
          PROVE  lock' = v /\ (what'[v] \in Runs => ~Holds(what'[v]))
      BY <2>1, <2>2, <2>7 DEF EmitBeat, Starts, InLock
    <2>8. ASSUME NEW w \in Writers, Lock(w)
          PROVE  lock' = v /\ (what'[v] \in Runs => ~Holds(what'[v]))
      BY <2>1, <2>2, <2>8, ConstantsAssumption DEF Lock, InLock
    <2>9. ASSUME NEW w \in Writers, ReadHead(w)
          PROVE  lock' = v /\ (what'[v] \in Runs => ~Holds(what'[v]))
      BY <2>1, <2>2, <2>9 DEF ReadHead, InLock
    <2>10. ASSUME NEW w \in Writers, Write(w)
           PROVE  lock' = v /\ (what'[v] \in Runs => ~Holds(what'[v]))
      BY <2>1, <2>2, <2>3, <2>10 DEF Write, Unlock, Rests, InLock
    <2>11. ASSUME NEW w \in Writers, Fails(w)
           PROVE  lock' = v /\ (what'[v] \in Runs => ~Holds(what'[v]))
      BY <2>1, <2>2, <2>3, <2>11 DEF Fails, Unlock, Rests, InLock
    <2>12. ASSUME NEW w \in Writers, Settle(w)
           PROVE  lock' = v /\ (what'[v] \in Runs => ~Holds(what'[v]))
      BY <2>1, <2>2, <2>12 DEF Settle, Rests, InLock
    <2>13. CASE UNCHANGED vars
      BY <2>2, <2>13 DEF vars, writer, InLock
    <2> QED BY <2>4, <2>5, <2>6, <2>7, <2>8, <2>9, <2>10, <2>11, <2>12, <2>13 DEF Next
  <1> QED BY <1>2, <1>3 DEF OnceInv

(* An accepted insert adds what the chain did not hold, and its writer leaves the lock. *)
LEMMA OnceAdded ==
  ASSUME TypeOK, ChainInv, OnceInv, NEW w \in Writers, NEW t \in Times \cup {Zero}, ~Refused(w),
         pc[w] = "writing", Adds(Entry(w, t)), Next
  PROVE  OnceInv'
  <1>1. chain' # chain
    <2>1. Entry(w, t) \in Entries /\ chain \in Seq(Entries)
      BY EntryFacts DEF ChainInv
    <2>2. Len(chain) \in Nat /\ DOMAIN chain' = 1..(Len(chain) + 1) /\ DOMAIN chain = 1..Len(chain)
      BY <2>1, AppendFacts
    <2> QED BY <2>2
  <1>2. PICK v \in Writers : Write(v)
    BY <1>1 DEF Next, Tick, AppendNote, EndRun, CommitOwed, EmitBeat, Lock, ReadHead, Fails, Settle
  <1>3. lock = w /\ v = w
    <2>1. InLock(v) /\ InLock(w)
      BY <1>2 DEF Write, InLock
    <2> QED BY <2>1 DEF OnceInv, Locked
  <1>4. \A u \in Writers : ~InLock(u)'
    <2>1. pc \in [Writers -> {"idle", "locking", "reading", "writing", "settling"}]
      BY DEF TypeOK
    <2>2. \A u \in Writers : u # w => ~InLock(u)
      BY <1>3 DEF OnceInv, Locked
    <2>3. pc' = [pc EXCEPT ![w] = "settling"] \/ pc' = [pc EXCEPT ![w] = "idle"]
      BY <1>2, <1>3 DEF Write, Rests
    <2> QED BY <2>1, <2>2, <2>3 DEF InLock
  <1>5. OnceEach'
    <2>1. Entry(w, t) \in Entries /\ Entry(w, t).what = what[w] /\ chain \in Seq(Entries)
      BY EntryFacts DEF ChainInv
    <2>2. /\ Len(chain) \in Nat /\ DOMAIN chain = 1..Len(chain)
          /\ DOMAIN chain' = 1..(Len(chain) + 1)
          /\ \A i \in 1..Len(chain) : chain'[i] = chain[i]
          /\ chain'[Len(chain) + 1].what = what[w]
      BY <2>1, AppendFacts
    <2>3. what[w] # Beat => ~Holds(what[w])
      <3>1. what[w] \in Runs \cup Notes \cup {Beat}
        BY DEF TypeOK
      <3>2. what[w] \in Runs => ~Holds(what[w])
        BY DEF OnceInv, Fresh, InLock
      <3> QED BY <3>1, <3>2 DEF Refused
    <2> QED BY <2>2, <2>3 DEF OnceInv, OnceEach, Holds
  <1> QED BY <1>4, <1>5 DEF OnceInv, Locked, Fresh

(* A decision, a release and an outcome is on the chain once, whoever committed it (Append). *)
THEOREM Once == Spec => []OnceEach
  <1>1. Init => OnceInv
    BY DEF Init, OnceInv, Locked, Fresh, OnceEach, InLock
  <1>2. TypeOK /\ ChainInv /\ OnceInv /\ [Next]_vars => OnceInv'
    <2> SUFFICES ASSUME TypeOK, ChainInv, OnceInv, [Next]_vars PROVE OnceInv'
      OBVIOUS
    <2>1. CASE UNCHANGED chain
      BY <2>1, OnceKept
    <2>2. CASE Next /\ ~UNCHANGED chain
      BY <2>2, ChainSteps, OnceAdded
    <2> QED BY <2>1, <2>2 DEF vars
  <1>3. OnceInv => OnceEach
    BY DEF OnceInv
  <1> QED BY <1>1, <1>2, <1>3, Chained, PTL DEF Spec

OwedInv == SettlesHeld /\ OwedOrRecorded

(* A run that ended owes its outcome until it is on the chain (CommitOwed, SettleOutcome). *)
THEOREM NeverLost == Spec => []OwedOrRecorded
  <1>1. Init => OwedInv
    BY DEF Init, OwedInv, SettlesHeld, OwedOrRecorded
  <1>2. TypeOK /\ ChainInv /\ OwedInv /\ [Next]_vars => OwedInv'
    <2> SUFFICES ASSUME TypeOK, ChainInv, OwedInv, [Next]_vars PROVE OwedInv'
      OBVIOUS
    <2>1. \A x : Holds(x) => Holds(x)'
      BY HeldStays
    <2>2. pc \in [Writers -> {"idle", "locking", "reading", "writing", "settling"}]
          /\ what \in [Writers -> Runs \cup Notes \cup {Beat}]
      BY DEF TypeOK
    <2>3. SettlesHeld'
      <3> SUFFICES ASSUME NEW v \in Writers, pc'[v] = "settling"
                   PROVE  (what[v] \in Runs /\ Holds(what[v]))'
        BY DEF SettlesHeld
      <3>1. CASE pc[v] = "settling" /\ what'[v] = what[v]
        BY <2>1, <3>1 DEF OwedInv, SettlesHeld
      <3>2. CASE ~(pc[v] = "settling" /\ what'[v] = what[v])
        <4>1. Lock(v) \/ Write(v)
          BY <2>2, <3>2 DEF Next, Tick, AppendNote, EndRun, CommitOwed, EmitBeat, Lock, ReadHead,
             Write, Fails, Settle, Starts, Rests, vars, writer
        <4>2. CASE Lock(v)
          BY <2>1, <2>2, <4>2 DEF Lock
        <4>3. CASE Write(v)
          <5>1. ~Refused(v) /\ what[v] \in Runs /\ UNCHANGED what
            BY <2>2, <4>3 DEF Write, Rests
          <5>2. PICK t \in Times \cup {Zero} : Adds(Entry(v, t))
            BY <4>3, <5>1 DEF Write, Adds
          <5>3. Holds(what[v])'
            BY <5>1, <5>2, HeldIsAdded
          <5> QED BY <5>1, <5>3
        <4> QED BY <4>1, <4>2, <4>3
      <3> QED BY <3>1, <3>2
    <2>4. OwedOrRecorded'
      <3> SUFFICES ASSUME NEW r \in ended' PROVE r \in owed' \/ Holds(r)'
        BY DEF OwedOrRecorded
      <3>1. CASE r \notin ended
        BY <3>1 DEF Next, Tick, AppendNote, EndRun, CommitOwed, EmitBeat, Lock, ReadHead,
           Write, Fails, Settle, vars
      <3>2. CASE r \in ended /\ Holds(r)
        BY <2>1, <3>2
      <3>3. CASE r \in ended /\ r \in owed /\ ~Holds(r)
        <4>1. ASSUME NEW w \in Writers, Settle(w) PROVE r \in owed'
          BY <3>3, <4>1 DEF Settle, OwedInv, SettlesHeld
        <4> QED BY <3>3, <4>1 DEF Next, Tick, AppendNote, EndRun, CommitOwed, EmitBeat, Lock,
               ReadHead, Write, Fails, vars
      <3> QED BY <3>1, <3>2, <3>3 DEF OwedInv, OwedOrRecorded
    <2> QED BY <2>3, <2>4 DEF OwedInv
  <1>3. OwedInv => OwedOrRecorded
    BY DEF OwedInv
  <1> QED BY <1>1, <1>2, <1>3, Chained, PTL DEF Spec
=============================================================================
