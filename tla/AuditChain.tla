----------------------------- MODULE AuditChain -----------------------------
(***************************************************************************)
(* The audit chain that every replica appends to.  An append takes an      *)
(* advisory lock, asks whether the chain holds the run's outcome already,  *)
(* reads the head and the database's clock, and inserts the entry that     *)
(* follows.  The clock may be stepped back, and the writers' own clocks    *)
(* are anywhere.  A span beat numbers itself and counts what came since    *)
(* the last one.  A run owes its outcome from the write that ends it until *)
(* a commit settles it, by the process that ended the run or by a janitor. *)
(* Hashes, the content of an entry and the install it names are left out.  *)
(***************************************************************************)
EXTENDS Integers, Sequences, FiniteSets

CONSTANTS
  Writers,    \* goroutines that append, on any replica
  Runs,       \* top-level runs
  Notes,      \* decisions and releases: entries with an id that a second finisher derives again
  MaxClock,   \* bound on the clocks
  MaxAhead,   \* MaxTimeAhead
  MaxBeats,   \* bound on span beats
  MaxFaults   \* bound on failures and on steps of the clock

None == "none"
Beat == "beat"
Zero == -1   \* the time of an entry whose writer leaves it to the store

ASSUME ConstantsAssumption ==
  /\ None \notin Writers /\ Beat \notin Runs \cup Notes /\ Runs \cap Notes = {}
  /\ MaxClock \in Nat /\ MaxAhead \in Nat /\ MaxBeats \in Nat /\ MaxFaults \in Nat

VARIABLES
  chain,   \* the entries; clock is what the store's clock read at the append, for the properties
  clock,   \* the database's clock
  lock,    \* the holder of the append lock
  pc, what, head,  \* per writer: its step, what it appends, the head it read
  ended,   \* runs with a terminal row
  owed,    \* runs that owe their outcome
  faults

writer == <<pc, what, head>>
vars == <<chain, clock, lock, writer, ended, owed, faults>>

Times == 0..MaxClock

Init ==
  /\ chain = <<>> /\ clock = 0 /\ lock = None
  /\ pc = [w \in Writers |-> "idle"] /\ what = [w \in Writers |-> Beat]
  /\ head = [w \in Writers |-> 0]
  /\ ended = {} /\ owed = {} /\ faults = MaxFaults

Fault == faults > 0 /\ faults' = faults - 1

Holds(x) == \E i \in DOMAIN chain : chain[i].what = x
Beats == {i \in DOMAIN chain : chain[i].what = Beat}

(***************************************************************************)
(* What an append writes.                                                  *)
(***************************************************************************)

\* Mutant: the writer's own time is kept when it is ahead of the store's clock.
StampAppendTimeKeeps(h, t, now) ==
  LET own == IF t = Zero THEN now ELSE t
      pin == IF chain[h].at > now + MaxAhead THEN now + MaxAhead ELSE chain[h].at
  IN  IF h > 0 /\ own < chain[h].at THEN pin ELSE own

\* StampAppendTime: the time of an entry after the one at h, when its writer chose t.
StampAppendTime(h, t, now) ==
  LET own == IF t = Zero \/ t > now THEN now ELSE t
      pin == IF chain[h].at > now + MaxAhead THEN now + MaxAhead ELSE chain[h].at
  IN  IF h > 0 /\ own < chain[h].at THEN pin ELSE own

\* lastSpan: where the newest beat is, 0 when there is none.
LastSpan == IF Beats = {} THEN 0 ELSE CHOOSE i \in Beats : \A j \in Beats : j <= i

\* NextSpanBeat: the number of the next beat, and how many entries came since the last.
NextSpanBeat(h, last) ==
  IF last = 0 THEN [beat |-> 1, count |-> h]
  ELSE [beat |-> chain[last].beat + 1, count |-> h - last]

\* Mutant: a beat is held against the head only.
BeatAdvancesHead(h, last, now) == h = 0 \/ now >= chain[h].at

\* CheckBeatAdvance and CheckBeatAfterHead.
BeatAdvances(h, last, now) ==
  /\ last = 0 \/ now > chain[last].at
  /\ h = 0 \/ now >= chain[h].at

\* What w inserts, when the time it chose by its own clock is t.
Entry(w, t) ==
  IF what[w] = Beat
  THEN [what |-> Beat, at |-> clock, clock |-> clock,
        beat |-> NextSpanBeat(head[w], LastSpan).beat, count |-> NextSpanBeat(head[w], LastSpan).count]
  ELSE [what |-> what[w], at |-> StampAppendTime(head[w], t, clock), clock |-> clock,
        beat |-> 0, count |-> 0]

\* The insert is refused: the sequence is taken, the id is, or the clock has not passed the chain.
Refused(w) ==
  \/ head[w] # Len(chain)
  \/ what[w] \in Notes /\ Holds(what[w])
  \/ what[w] = Beat /\ ~BeatAdvances(head[w], LastSpan, clock)

(***************************************************************************)
(* The writers.                                                            *)
(***************************************************************************)

Starts(w, x) ==
  /\ pc[w] = "idle" /\ pc' = [pc EXCEPT ![w] = "locking"] /\ what' = [what EXCEPT ![w] = x]
  /\ UNCHANGED head

Rests(w) ==
  /\ pc' = [pc EXCEPT ![w] = "idle"] /\ what' = [what EXCEPT ![w] = Beat]
  /\ head' = [head EXCEPT ![w] = 0]

Unlock(w) == lock' = IF lock = w THEN None ELSE lock

\* A decision or a release is appended, or once more by a second finisher or a retry.
AppendNote(w, n) ==
  /\ Starts(w, n)
  /\ UNCHANGED <<chain, clock, lock, ended, owed, faults>>

\* beat: the emitter leaves the time to the store.
EmitBeat(w) ==
  /\ Cardinality(Beats) < MaxBeats /\ Starts(w, Beat)
  /\ UNCHANGED <<chain, clock, lock, ended, owed, faults>>

\* A run's terminal write, which the runs_outcome_owed trigger marks.  The process goes on to commit
\* the outcome, unless it is a store's sweep or dies here.
EndRun(w, r) ==
  /\ r \notin ended /\ ended' = ended \cup {r} /\ owed' = owed \cup {r}
  /\ Starts(w, r) \/ UNCHANGED writer
  /\ UNCHANGED <<chain, clock, lock, faults>>

\* commitOwed on any janitor.
CommitOwed(w, r) ==
  /\ r \in owed /\ Starts(w, r)
  /\ UNCHANGED <<chain, clock, lock, ended, owed, faults>>

\* Mutant: the outcome is looked for, and nothing is locked.
LockNothing(w) ==
  /\ pc[w] = "locking"
  /\ pc' = [pc EXCEPT ![w] = IF what[w] \in Runs /\ Holds(what[w]) THEN "settling" ELSE "reading"]
  /\ UNCHANGED <<chain, clock, lock, what, head, ended, owed, faults>>

\* Mutant: an outcome the chain holds already is an error like any other.
LockRefuses(w) ==
  /\ pc[w] = "locking" /\ lock = None
  /\ \/ what[w] \in Runs /\ Holds(what[w]) /\ Rests(w) /\ UNCHANGED lock
     \/ /\ ~(what[w] \in Runs /\ Holds(what[w])) /\ lock' = w
        /\ pc' = [pc EXCEPT ![w] = "reading"] /\ UNCHANGED <<what, head>>
  /\ UNCHANGED <<chain, clock, ended, owed, faults>>

\* Append: the lock, then outcomeHeld.  An outcome the chain holds already is rolled back, and counts
\* as committed.
Lock(w) ==
  /\ pc[w] = "locking" /\ lock = None
  /\ IF what[w] \in Runs /\ Holds(what[w])
     THEN pc' = [pc EXCEPT ![w] = "settling"] /\ UNCHANGED lock
     ELSE pc' = [pc EXCEPT ![w] = "reading"] /\ lock' = w
  /\ UNCHANGED <<chain, clock, what, head, ended, owed, faults>>

\* Append: the head.
ReadHead(w) ==
  /\ pc[w] = "reading" /\ pc' = [pc EXCEPT ![w] = "writing"]
  /\ head' = [head EXCEPT ![w] = Len(chain)]
  /\ UNCHANGED <<chain, clock, lock, what, ended, owed, faults>>

\* Append and AppendSpanBeat: the clock, the insert and the commit.  The answer may be lost.
Write(w) ==
  /\ pc[w] = "writing" /\ Unlock(w)
  /\ IF Refused(w) THEN UNCHANGED chain
     ELSE \E t \in Times \cup {Zero} : chain' = Append(chain, Entry(w, t))
  /\ \/ /\ ~Refused(w) /\ what[w] \in Runs
        /\ pc' = [pc EXCEPT ![w] = "settling"] /\ UNCHANGED <<what, head, faults>>
     \/ (Refused(w) \/ what[w] \notin Runs) /\ Rests(w) /\ UNCHANGED faults
     \/ Fault /\ Rests(w)
  /\ UNCHANGED <<clock, ended, owed>>

\* Mutant: a failed commit of an outcome settles it too.
FailsSettled(w) ==
  /\ pc[w] \in {"locking", "reading", "writing"} /\ Fault /\ Unlock(w)
  /\ pc' = [pc EXCEPT ![w] = IF what[w] \in Runs THEN "settling" ELSE "idle"]
  /\ UNCHANGED <<chain, clock, what, head, ended, owed>>

\* An append that fails, or whose process dies, is rolled back.
Fails(w) ==
  /\ pc[w] \in {"locking", "reading", "writing"} /\ Fault /\ Unlock(w) /\ Rests(w)
  /\ UNCHANGED <<chain, clock, ended, owed>>

\* SettleOutcome, which may fail.
Settle(w) ==
  /\ pc[w] = "settling" /\ Rests(w)
  /\ \/ owed' = owed \ {what[w]} /\ UNCHANGED faults
     \/ Fault /\ UNCHANGED owed
  /\ UNCHANGED <<chain, clock, lock, ended>>

\* The database's clock runs, or is stepped back.
Tick ==
  /\ \/ clock < MaxClock /\ clock' = clock + 1 /\ UNCHANGED faults
     \/ Fault /\ clock' \in 0..(clock - 1)
  /\ UNCHANGED <<chain, lock, writer, ended, owed>>

Next ==
  \/ Tick
  \/ \E w \in Writers :
       \/ \E n \in Notes : AppendNote(w, n)
       \/ \E r \in Runs : EndRun(w, r) \/ CommitOwed(w, r)
       \/ EmitBeat(w) \/ Lock(w) \/ ReadHead(w) \/ Write(w) \/ Fails(w) \/ Settle(w)

Spec == Init /\ [][Next]_vars

\* The lock is granted in the order it was asked for, a transaction that has it goes on, and the
\* janitors sweep on every tick.
FairSpec ==
  /\ Spec
  /\ \A w \in Writers : SF_vars(Lock(w)) /\ WF_vars(ReadHead(w) \/ Write(w) \/ Settle(w))
  /\ \A r \in Runs : SF_vars(\E w \in Writers : CommitOwed(w, r))

-----------------------------------------------------------------------------

Entries ==
  [what : Runs \cup Notes \cup {Beat}, at : Nat, clock : Times, beat : Nat, count : Nat]

TypeOK ==
  /\ chain \in Seq(Entries) /\ clock \in Times /\ lock \in Writers \cup {None}
  /\ pc \in [Writers -> {"idle", "locking", "reading", "writing", "settling"}]
  /\ what \in [Writers -> Runs \cup Notes \cup {Beat}]
  /\ head \in [Writers -> Nat]
  /\ ended \subseteq Runs /\ owed \subseteq Runs /\ faults \in 0..MaxFaults

\* A run's outcome, and an entry with a fixed id, is on the chain once, whoever committed it and
\* however often it was tried.
OnceEach ==
  \A i, j \in DOMAIN chain : chain[i].what = chain[j].what /\ chain[i].what # Beat => i = j

\* Recorded times run backward only where the store's clock had been stepped back by more than
\* MaxTimeAhead since an earlier append: no writer's own clock makes them.
InversionShowsStep ==
  \A i \in DOMAIN chain \ {1} :
    chain[i].at < chain[i - 1].at => \E j \in 1..(i - 1) : chain[j].clock > chain[i].clock + MaxAhead

\* No entry is dated further ahead of the store's clock than MaxTimeAhead, however far the clock was
\* stepped back under the head, so a timestamp authority's anchor over it holds.
NotAhead == \A i \in DOMAIN chain : chain[i].at <= chain[i].clock + MaxAhead

\* The beats are numbered without a gap or a repeat, each counts exactly the entries since the one
\* before it, and their times advance: a bundle over any pair of them verifies.
BeatsAttest ==
  \A i \in Beats :
    LET before == {j \in Beats : j < i} IN
      /\ chain[i].beat = Cardinality(before) + 1
      /\ chain[i].count = Cardinality({j \in 1..(i - 1) : \A k \in before : k < j})
      /\ \A j \in before : chain[j].at < chain[i].at

\* A run that ended has its outcome on the chain, or owes it.
OwedOrRecorded == \A r \in ended : r \in owed \/ Holds(r)

\* The outcome of every run that ends comes to the chain and is settled, by whatever process is left.
OutcomeIsRecorded == \A r \in Runs : r \in ended ~> Holds(r) /\ r \notin owed
=============================================================================
