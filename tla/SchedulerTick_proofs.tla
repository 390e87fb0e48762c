------------------------ MODULE SchedulerTick_proofs ------------------------
(* Proofs about the scheduler loops, for any number of admins and jobs: if *)
(* no tick lasts half as long as a lock, the locks that lapse by           *)
(* themselves exclude as if they were released; fire times are served in   *)
(* time, and again only after failures.                                    *)
EXTENDS SchedulerTick, FiniteSetTheorems, TLAPS

-----------------------------------------------------------------------------
(* The inductive invariant.  For the tick r of an admin: the lock of the   *)
(* job it processes outlives the tick; that job has the fire time of the   *)
(* snapshot; and a snapshot that has gone stale is of a job whose lock     *)
(* outlives the tick, so that the tick will find it taken.                 *)
Sound(r, now, locks, fire, pushed) ==
    /\ r.now <= now
    /\ r.at # "idle" => now <= r.now + MaxStall
    /\ r.job # NoRow => /\ r.now + LockTtl <= locks[r.job.id]
                        /\ r.job.next_fire_at = fire[r.job.id]
    /\ \A d \in r.due : d.next_fire_at = fire[d.id] \/ r.now + MaxStall < locks[d.id]
    /\ r.at = "update" => pushed[r.job.id][r.job.next_fire_at] > 0

(* The part of TypeOK about one tick. *)
WellFormed(r) ==
    /\ r \in Tick
    /\ r.job = NoRow <=> r.at \in {"idle", "next"}
    /\ r.at = "idle" => r.due = {}
    /\ \A d \in r.due \cup {r.job} : d.next_fire_at <= r.now

Inv ==
    /\ TypeOK
    /\ \A a \in Admins : Sound(admin[a], clock, lock, next_fire_at, enqueued)
    /\ OneProcessor
    /\ RowsNotForgotten

(* Everything but the ticks has its type. *)
SharedTypeOK ==
    /\ clock \in 1 .. MaxTime
    /\ next_fire_at \in [Jobs -> Times]
    /\ lock \in [Jobs -> Nat]
    /\ executions \subseteq Jobs \X (Times \ {NoTime})
    /\ enqueued \in [Jobs -> [Times -> Nat]]
    /\ failures \in 0 .. MaxFailures

LEMMA Types ==
    TypeOK <=> /\ SharedTypeOK
               /\ admin \in [Admins -> Tick]
               /\ \A a \in Admins : WellFormed(admin[a])
  BY DEF TypeOK, SharedTypeOK, WellFormed

LEMMA NotARow == NoRow \notin JobRow /\ NoRow.next_fire_at = 0
  BY DEF NoRow, JobRow, NoTime

LEMMA InitInv == Init => Inv
  <1> SUFFICES ASSUME Init PROVE Inv
    OBVIOUS
  <1> USE TimingAssumption DEF Init
  <1>1. \A a \in Admins : /\ admin[a].at = "idle" /\ admin[a].now = 0
                          /\ admin[a].due = {} /\ admin[a].job = NoRow
    BY DEF IdleAdmin
  <1>2. admin \in [Admins -> Tick]
    BY DEF IdleAdmin, Tick
  <1>3. SharedTypeOK
    BY DEF SharedTypeOK, Times, NoTime
  <1>4. TypeOK
    BY <1>1, <1>2, <1>3, Types, NotARow DEF WellFormed
  <1>5. \A a \in Admins : Sound(admin[a], clock, lock, next_fire_at, enqueued)
    BY <1>1 DEF Sound
  <1>6. OneProcessor /\ RowsNotForgotten
    BY <1>1 DEF OneProcessor, Processing, RowsNotForgotten
  <1> QED BY <1>4, <1>5, <1>6 DEF Inv

-----------------------------------------------------------------------------
(* A step of admin a that takes its tick to r.  Locks are only prolonged,  *)
(* nothing is taken off a queue, and a fire time changes only under the    *)
(* lock of a tick that processes the job.                                  *)
LEMMA TickStepInv ==
    ASSUME 2 * MaxStall < LockTtl,
           Inv, SharedTypeOK', RowsNotForgotten', clock' = clock,
           NEW a \in Admins, NEW r, WellFormed(r),
           admin' = [admin EXCEPT ![a] = r],
           Sound(r, clock, lock', next_fire_at', enqueued'),
           \A b \in Admins \ {a} : r.job # NoRow /\ admin[b].job # NoRow =>
                                     r.job.id # admin[b].job.id,
           \A j \in Jobs : lock[j] <= lock'[j],
           \A j \in Jobs, t \in Times : enqueued[j][t] <= enqueued'[j][t],
           \A j \in Jobs : next_fire_at'[j] = next_fire_at[j] \/ Processing(a, j)
    PROVE  Inv'
  <1> USE TimingAssumption
  <1>1. /\ admin'[a] = r
        /\ \A b \in Admins : b # a => admin'[b] = admin[b]
        /\ admin' \in [Admins -> Tick]
        /\ SharedTypeOK
        /\ \A b \in Admins : WellFormed(admin[b]) /\ admin[b] \in Tick
        /\ \A b \in Admins : Sound(admin[b], clock, lock, next_fire_at, enqueued)
    BY Types DEF Inv, WellFormed
  <1>2. TypeOK'
    <2>1. \A b \in Admins : WellFormed(admin'[b])
      BY <1>1
    <2> QED BY <1>1, <2>1 DEF TypeOK, SharedTypeOK, WellFormed
  <1>3. ASSUME NEW b \in Admins, b # a
        PROVE  Sound(admin[b], clock, lock', next_fire_at', enqueued')
    <2> DEFINE s == admin[b]
    <2>1. s \in Tick /\ Sound(s, clock, lock, next_fire_at, enqueued) /\ WellFormed(s)
      BY <1>1
    <2>2. clock \in Nat /\ s.now \in Nat /\ lock \in [Jobs -> Nat] /\ lock' \in [Jobs -> Nat]
      BY <1>1, <2>1 DEF SharedTypeOK, Tick
    <2>3. ASSUME s.job # NoRow
          PROVE  /\ s.now + LockTtl <= lock'[s.job.id]
                 /\ s.job.next_fire_at = next_fire_at'[s.job.id]
      <3>1. s.job.id \in Jobs
        BY <2>1, <2>3 DEF Tick, JobRow
      <3>2. ~Processing(a, s.job.id)
        BY <1>3, <2>3, <3>1 DEF Inv, OneProcessor, Processing
      <3> HIDE DEF s
      <3> QED BY <2>1, <2>2, <2>3, <3>1, <3>2 DEF Sound
    <2>4. ASSUME NEW d \in s.due
          PROVE  d.next_fire_at = next_fire_at'[d.id] \/ s.now + MaxStall < lock'[d.id]
      <3>1. d.id \in Jobs
        BY <2>1 DEF Tick, JobRow
      <3>2. CASE next_fire_at'[d.id] = next_fire_at[d.id]
        <4> HIDE DEF s
        <4> QED BY <2>1, <2>2, <3>1, <3>2 DEF Sound
      <3>3. CASE Processing(a, d.id)
        <4>0. /\ admin[a].job # NoRow /\ admin[a].job.id = d.id
              /\ WellFormed(admin[a]) /\ admin[a] \in Tick
              /\ Sound(admin[a], clock, lock, next_fire_at, enqueued)
          BY <1>1, <3>3 DEF Processing
        <4>1. /\ admin[a].now + LockTtl <= lock[d.id]
              /\ clock <= admin[a].now + MaxStall
              /\ admin[a].now \in Nat
          BY <4>0 DEF Sound, WellFormed, Tick
        <4>2. s.now <= clock
          BY <2>1 DEF Sound
        <4>3. s.now + MaxStall < lock[d.id]
          <5>1. lock[d.id] \in Nat
            BY <2>2, <3>1
          <5> HIDE DEF s
          <5> QED BY <2>2, <5>1, <4>1, <4>2
        <4> HIDE DEF s
        <4> QED BY <2>2, <3>1, <4>3
      <3> QED BY <3>1, <3>2, <3>3
    <2>5. ASSUME s.at = "update"
          PROVE  enqueued'[s.job.id][s.job.next_fire_at] > 0
      <3>1. s.job.id \in Jobs /\ s.job.next_fire_at \in Times
        BY <2>1, <2>5 DEF WellFormed, Tick, JobRow
      <3>2. enqueued[s.job.id][s.job.next_fire_at] > 0
        BY <2>1, <2>5 DEF Sound
      <3>3. /\ enqueued[s.job.id][s.job.next_fire_at] \in Nat
            /\ enqueued'[s.job.id][s.job.next_fire_at] \in Nat
        BY <1>1, <3>1 DEF SharedTypeOK
      <3> QED BY <3>1, <3>2, <3>3
    <2>6. Sound(s, clock, lock', next_fire_at', enqueued')
      <3> HIDE DEF s
      <3> QED BY <2>1, <2>3, <2>4, <2>5 DEF Sound
    <2> QED BY <2>6
  <1>4. \A b \in Admins : Sound(admin'[b], clock', lock', next_fire_at', enqueued')
    BY <1>1, <1>3
  <1>5. OneProcessor'
    BY <1>1 DEF Inv, OneProcessor, Processing
  <1> QED BY <1>2, <1>4, <1>5 DEF Inv

LEMMA TickRecord ==
    ASSUME NEW r \in Tick
    PROVE  r = [at |-> r.at, now |-> r.now, due |-> r.due, job |-> r.job]
  BY DEF Tick

LEMMA AdminFacts ==
    ASSUME Inv, NEW a \in Admins
    PROVE  /\ SharedTypeOK /\ RowsNotForgotten
           /\ admin \in [Admins -> Tick]
           /\ WellFormed(admin[a]) /\ admin[a] \in Tick
           /\ Sound(admin[a], clock, lock, next_fire_at, enqueued)
  BY Types DEF Inv

(* Two ticks never process one job. *)
LEMMA OthersJobs ==
    ASSUME Inv, NEW a \in Admins, admin[a].job # NoRow
    PROVE  \A b \in Admins \ {a} : admin[b].job # NoRow => admin[a].job.id # admin[b].job.id
  <1>1. admin[a].job.id \in Jobs
    BY AdminFacts DEF Tick, JobRow
  <1> QED BY <1>1 DEF Inv, OneProcessor, Processing

(* A step of an admin that changes nothing but its tick: it goes on with   *)
(* its jobs, or drops some of them, or lists them anew.                    *)
LEMMA OwnStep ==
    ASSUME 2 * MaxStall < LockTtl,
           Inv, NEW a \in Admins, NEW r, WellFormed(r),
           admin' = [admin EXCEPT ![a] = r],
           Sound(r, clock, lock, next_fire_at, enqueued),
           r.job # NoRow => r.job = admin[a].job,
           SharedTypeOK', UNCHANGED <<clock, next_fire_at, lock, enqueued>>,
           RowsNotForgotten'
    PROVE  Inv'
  <1>1. \A b \in Admins \ {a} : r.job # NoRow /\ admin[b].job # NoRow =>
                                  r.job.id # admin[b].job.id
    BY OthersJobs
  <1>2. /\ \A j \in Jobs : lock[j] <= lock'[j]
        /\ \A j \in Jobs, t \in Times : enqueued[j][t] <= enqueued'[j][t]
    BY AdminFacts DEF SharedTypeOK
  <1>3. Sound(r, clock, lock', next_fire_at', enqueued')
    OBVIOUS
  <1> QED BY <1>1, <1>2, <1>3, TickStepInv

(* Steps that leave all but the ticks alone. *)
LEMMA PrivateSteps ==
    ASSUME 2 * MaxStall < LockTtl, Inv, NEW a \in Admins,
           \/ StartTick(a) \/ EndTick(a) \/ ListFails(a) \/ Crash(a)
           \/ \E d \in admin[a].due : SkipLocked(a, d) \/ (LockFails(a, d) /\ UNCHANGED lock)
    PROVE  Inv'
  <1> USE TimingAssumption
  <1> DEFINE old == admin[a]
  <1>1. /\ SharedTypeOK /\ RowsNotForgotten /\ admin \in [Admins -> Tick]
        /\ WellFormed(old) /\ old \in Tick
        /\ Sound(old, clock, lock, next_fire_at, enqueued)
        /\ clock \in 1 .. MaxTime /\ old.now \in 0 .. MaxTime /\ old.now \in 0 .. clock
    BY AdminFacts DEF SharedTypeOK, Tick, Sound
  <1>2. /\ UNCHANGED <<clock, next_fire_at, lock, executions, enqueued>>
        /\ failures' \in 0 .. MaxFailures
    BY <1>1 DEF StartTick, EndTick, ListFails, Crash, SkipLocked, LockFails, CountFailure, SharedTypeOK
  <1>3. SharedTypeOK' /\ RowsNotForgotten'
    BY <1>1, <1>2 DEF SharedTypeOK, RowsNotForgotten
  <1>4. CASE StartTick(a)
    <2> DEFINE r == [at |-> "next", now |-> clock, due |-> DueRows(clock), job |-> NoRow]
    <2>1. \A d \in DueRows(clock) :
             d \in JobRow /\ d.next_fire_at = next_fire_at[d.id] /\ d.next_fire_at <= clock
      BY <1>1 DEF DueRows, IsDue, JobRow, SharedTypeOK, NoTime
    <2>2. /\ r \in Tick
          /\ r.at = "next" /\ r.now = clock /\ r.due = DueRows(clock) /\ r.job = NoRow
      BY <1>1, <2>1 DEF Tick
    <2>3. admin' = [admin EXCEPT ![a] = r]
      BY <1>4 DEF StartTick
    <2> HIDE DEF r
    <2>4. WellFormed(r)
      BY <1>1, <2>1, <2>2, NotARow DEF WellFormed
    <2>5. Sound(r, clock, lock, next_fire_at, enqueued)
      BY <1>1, <2>1, <2>2 DEF Sound
    <2> QED BY <1>2, <1>3, <2>2, <2>3, <2>4, <2>5, OwnStep
  <1>5. ASSUME NEW r, admin' = [admin EXCEPT ![a] = r],
               r \in Tick, r.at = "idle", r.now \in 0 .. clock, r.due = {}, r.job = NoRow
        PROVE  Inv'
    <2>1. WellFormed(r)
      BY <1>5, NotARow DEF WellFormed
    <2>2. Sound(r, clock, lock, next_fire_at, enqueued)
      BY <1>1, <1>5 DEF Sound
    <2> QED BY <1>2, <1>3, <1>5, <2>1, <2>2, OwnStep
  <1>6. CASE EndTick(a)
    <2> DEFINE r == [old EXCEPT !.at = "idle"]
    <2>1. old.at = "next" /\ old.due = {} /\ old.job = NoRow
      BY <1>1, <1>6 DEF EndTick, WellFormed
    <2>2. r \in Tick /\ r.at = "idle" /\ r.now \in 0 .. clock /\ r.due = {} /\ r.job = NoRow
      BY <1>1, <2>1 DEF Tick
    <2>3. admin' = [admin EXCEPT ![a] = r]
      BY <1>6 DEF EndTick
    <2> HIDE DEF r
    <2> QED BY <1>5, <2>2, <2>3
  <1>7. CASE ListFails(a)
    <2> DEFINE r == [old EXCEPT !.now = clock]
    <2>1. old.at = "idle" /\ old.due = {} /\ old.job = NoRow
      BY <1>1, <1>7 DEF ListFails, WellFormed
    <2>2. r \in Tick /\ r.at = "idle" /\ r.now \in 0 .. clock /\ r.due = {} /\ r.job = NoRow
      BY <1>1, <2>1 DEF Tick
    <2>3. admin' = [admin EXCEPT ![a] = r]
      BY <1>7 DEF ListFails
    <2> HIDE DEF r
    <2> QED BY <1>5, <2>2, <2>3
  <1>8. CASE Crash(a)
    <2> DEFINE r == IdleAdmin(old.now)
    <2>1. r \in Tick /\ r.at = "idle" /\ r.now \in 0 .. clock /\ r.due = {} /\ r.job = NoRow
      BY <1>1 DEF Tick, IdleAdmin
    <2>2. admin' = [admin EXCEPT ![a] = r]
      BY <1>8 DEF Crash
    <2> HIDE DEF r
    <2> QED BY <1>5, <2>1, <2>2
  <1>9. ASSUME NEW d \in admin[a].due, SkipLocked(a, d) \/ LockFails(a, d)
        PROVE  Inv'
    <2> DEFINE r == [old EXCEPT !.due = old.due \ {d}]
    <2>1. admin' = [admin EXCEPT ![a] = r]
      BY <1>9 DEF SkipLocked, LockFails
    <2>2. /\ r \in Tick
          /\ r.at = old.at /\ r.now = old.now /\ r.due = old.due \ {d} /\ r.job = old.job
      BY <1>1 DEF Tick
    <2> HIDE DEF r, old
    <2>3. WellFormed(r)
      BY <1>1, <2>2 DEF WellFormed
    <2>4. Sound(r, clock, lock, next_fire_at, enqueued)
      BY <1>1, <2>2 DEF Sound
    <2> QED BY <1>2, <1>3, <2>1, <2>2, <2>3, <2>4, OwnStep DEF old
  <1> QED BY <1>4, <1>6, <1>7, <1>8, <1>9

(* Who finds the lock free has a snapshot of the job that is current, and  *)
(* nobody else processes the job.                                          *)
LEMMA FreeLock ==
    ASSUME 2 * MaxStall < LockTtl, Inv, NEW a \in Admins, NEW d \in admin[a].due, LockFree(d.id)
    PROVE  /\ d \in JobRow
           /\ d.next_fire_at = next_fire_at[d.id]
           /\ \A b \in Admins : admin[b].job # NoRow => admin[b].job.id # d.id
  <1> USE TimingAssumption
  <1>1. d \in JobRow /\ d.id \in Jobs /\ admin[a].at # "idle"
    BY AdminFacts DEF WellFormed, Tick, JobRow
  <1>2. lock[d.id] \in Nat /\ clock \in Nat /\ lock[d.id] <= clock
    BY <1>1, AdminFacts DEF LockFree, SharedTypeOK
  <1>3. ASSUME NEW b \in Admins
        PROVE  /\ admin[b].now \in Nat
               /\ admin[b].at # "idle" => clock <= admin[b].now + MaxStall
               /\ admin[b].job # NoRow => admin[b].at # "idle"
    BY AdminFacts DEF Sound, WellFormed, Tick
  <1>4. d.next_fire_at = next_fire_at[d.id]
    <2>1. d.next_fire_at = next_fire_at[d.id] \/ admin[a].now + MaxStall < lock[d.id]
      BY AdminFacts DEF Sound
    <2> QED BY <1>1, <1>2, <1>3, <2>1
  <1>5. ASSUME NEW b \in Admins, admin[b].job # NoRow, admin[b].job.id = d.id
        PROVE  FALSE
    <2>1. admin[b].now + LockTtl <= lock[d.id]
      BY <1>5, AdminFacts DEF Sound
    <2> QED BY <1>2, <1>3, <1>5, <2>1
  <1> QED BY <1>1, <1>4, <1>5

(* The lock is set, and its job is processed now or dropped. *)
LEMMA SetLockSteps ==
    ASSUME 2 * MaxStall < LockTtl, Inv, NEW a \in Admins, NEW d \in admin[a].due,
           LockFree(d.id), TakeLock(a, d) \/ (LockFails(a, d) /\ SetLock(a, d.id))
    PROVE  Inv'
  <1> USE TimingAssumption
  <1> DEFINE old == admin[a]
  <1>1. /\ SharedTypeOK /\ RowsNotForgotten /\ admin \in [Admins -> Tick]
        /\ WellFormed(old) /\ old \in Tick
        /\ Sound(old, clock, lock, next_fire_at, enqueued)
        /\ clock \in Nat /\ old.now \in Nat /\ old.now <= clock
        /\ lock \in [Jobs -> Nat]
        /\ old.at = "next" /\ old.job = NoRow
    BY AdminFacts DEF SharedTypeOK, Tick, Sound, WellFormed, TakeLock, LockFails
  <1>2. /\ UNCHANGED <<clock, next_fire_at, executions, enqueued>>
        /\ failures' \in 0 .. MaxFailures
        /\ lock' = [lock EXCEPT ![d.id] = clock + LockTtl]
    BY <1>1 DEF TakeLock, LockFails, CountFailure, SharedTypeOK, SetLock, Lapse
  <1>3. /\ d \in JobRow /\ d.id \in Jobs /\ d # NoRow
        /\ d.next_fire_at = next_fire_at[d.id]
        /\ \A b \in Admins : admin[b].job # NoRow => admin[b].job.id # d.id
    BY FreeLock, NotARow DEF JobRow
  <1>4. lock' \in [Jobs -> Nat] /\ lock'[d.id] = clock + LockTtl
    BY <1>1, <1>2, <1>3
  <1>5. \A j \in Jobs : lock[j] <= lock'[j]
    BY <1>1, <1>2, <1>3, <1>4 DEF LockFree
  <1>6. SharedTypeOK' /\ RowsNotForgotten'
    BY <1>1, <1>2, <1>4 DEF SharedTypeOK, RowsNotForgotten
  <1>7. /\ \A j \in Jobs, t \in Times : enqueued[j][t] <= enqueued'[j][t]
        /\ \A j \in Jobs : next_fire_at'[j] = next_fire_at[j]
    BY <1>1, <1>2 DEF SharedTypeOK
  <1>8. \A c \in old.due : c.next_fire_at = next_fire_at[c.id] \/ old.now + MaxStall < lock'[c.id]
    <2> SUFFICES ASSUME NEW c \in old.due, c.next_fire_at # next_fire_at[c.id]
                 PROVE  old.now + MaxStall < lock'[c.id]
      OBVIOUS
    <2>1. c.id \in Jobs
      BY <1>1 DEF Tick, JobRow
    <2>2. lock[c.id] \in Nat /\ lock'[c.id] \in Nat /\ lock[c.id] <= lock'[c.id]
      BY <1>1, <1>4, <1>5, <2>1
    <2>3. old.now + MaxStall < lock[c.id]
      BY <1>1 DEF Sound
    <2> HIDE DEF old
    <2> QED BY <1>1, <2>2, <2>3
  <1>9. ASSUME NEW r, admin' = [admin EXCEPT ![a] = r],
               r \in Tick, r.now = old.now, r.due = old.due \ {d},
               \/ r.at = "next" /\ r.job = NoRow
               \/ r.at = "create" /\ r.job = d
        PROVE  Inv'
    <2>1. WellFormed(r)
      BY <1>1, <1>3, <1>9 DEF WellFormed
    <2>2. Sound(r, clock, lock', next_fire_at', enqueued')
      <3>1. r.now <= clock /\ clock <= r.now + MaxStall
        BY <1>1, <1>9 DEF Sound
      <3>2. r.job # NoRow => /\ r.now + LockTtl <= lock'[r.job.id]
                             /\ r.job.next_fire_at = next_fire_at'[r.job.id]
        <4> HIDE DEF old
        <4> QED BY <1>1, <1>2, <1>3, <1>4, <1>9
      <3>3. \A c \in r.due : c.next_fire_at = next_fire_at'[c.id] \/ r.now + MaxStall < lock'[c.id]
        BY <1>2, <1>8, <1>9
      <3> QED BY <1>9, <3>1, <3>2, <3>3 DEF Sound
    <2>3. \A b \in Admins \ {a} : r.job # NoRow /\ admin[b].job # NoRow =>
                                    r.job.id # admin[b].job.id
      BY <1>3, <1>9
    <2> QED BY <1>2, <1>5, <1>6, <1>7, <1>9, <2>1, <2>2, <2>3, TickStepInv
  <1>10. CASE TakeLock(a, d)
    <2> DEFINE r == [old EXCEPT !.at = "create", !.due = old.due \ {d}, !.job = d]
    <2>1. /\ r \in Tick /\ r.now = old.now /\ r.due = old.due \ {d}
          /\ r.at = "create" /\ r.job = d
      BY <1>1, <1>3 DEF Tick
    <2>2. admin' = [admin EXCEPT ![a] = r]
      BY <1>10 DEF TakeLock
    <2> HIDE DEF r, old
    <2> QED BY <1>9, <2>1, <2>2
  <1>11. CASE LockFails(a, d)
    <2> DEFINE r == [old EXCEPT !.due = old.due \ {d}]
    <2>1. /\ r \in Tick /\ r.now = old.now /\ r.due = old.due \ {d}
          /\ r.at = "next" /\ r.job = NoRow
      BY <1>1 DEF Tick
    <2>2. admin' = [admin EXCEPT ![a] = r]
      BY <1>11 DEF LockFails
    <2> HIDE DEF r, old
    <2> QED BY <1>9, <2>1, <2>2
  <1> QED BY <1>10, <1>11

LEMMA Counted ==
    ASSUME NEW f \in [Jobs -> [Times -> Nat]], NEW j \in Jobs, NEW t \in Times,
           NEW g, g = [f EXCEPT ![j][t] = @ + 1]
    PROVE  /\ g \in [Jobs -> [Times -> Nat]]
           /\ \A k \in Jobs, u \in Times : f[k][u] <= g[k][u]
           /\ g[j][t] > 0
  <1> DEFINE row == [f[j] EXCEPT ![t] = f[j][t] + 1]
  <1>1. f[j] \in [Times -> Nat] /\ f[j][t] \in Nat
    OBVIOUS
  <1>2. /\ row \in [Times -> Nat] /\ row[t] = f[j][t] + 1
        /\ \A u \in Times : f[j][u] <= row[u]
    BY <1>1
  <1>3. g = [f EXCEPT ![j] = row]
    OBVIOUS
  <1> HIDE DEF row
  <1>4. g \in [Jobs -> [Times -> Nat]] /\ g[j] = row /\ \A k \in Jobs : k # j => g[k] = f[k]
    BY <1>2, <1>3
  <1>5. \A k \in Jobs, u \in Times : f[k][u] <= g[k][u]
    BY <1>2, <1>4
  <1> QED BY <1>1, <1>2, <1>4, <1>5

(* What a call for the job j of a tick may change: the execution of the    *)
(* fire time t is added, or enqueued, or the fire time is moved on.        *)
JobEffect(a, j, t) ==
    \/ /\ admin[a].at = "create"
       /\ executions' = executions \cup {<<j, t>>} \/ UNCHANGED executions
       /\ UNCHANGED <<next_fire_at, enqueued>>
    \/ /\ admin[a].at = "enqueue"
       /\ enqueued' = [enqueued EXCEPT ![j][t] = @ + 1] \/ UNCHANGED enqueued
       /\ UNCHANGED <<next_fire_at, executions>>
    \/ /\ admin[a].at = "update"
       /\ \/ next_fire_at' = [next_fire_at EXCEPT ![j] = admin[a].now + Period]
          \/ UNCHANGED next_fire_at
       /\ UNCHANGED <<executions, enqueued>>

(* The tick then goes on with the job, or leaves it. *)
LEMMA JobStepInv ==
    ASSUME 2 * MaxStall < LockTtl, Inv, NEW a \in Admins, admin[a].job # NoRow,
           JobEffect(a, admin[a].job.id, admin[a].job.next_fire_at),
           UNCHANGED <<clock, lock>>, failures' \in 0 .. MaxFailures,
           NEW r, admin' = [admin EXCEPT ![a] = r],
           r \in Tick, r.now = admin[a].now, r.due = admin[a].due,
           \/ r.at = "next" /\ r.job = NoRow
           \/ /\ r.at \in {"enqueue", "update"} /\ r.job = admin[a].job
              /\ UNCHANGED next_fire_at
              /\ r.at = "update" => enqueued'[r.job.id][r.job.next_fire_at] > 0
    PROVE  Inv'
  <1> USE TimingAssumption
  <1> DEFINE old == admin[a]
  <1>1. PICK j \in Jobs, t \in Times : j = old.job.id /\ t = old.job.next_fire_at /\ t # NoTime
    BY AdminFacts DEF Tick, JobRow
  <1>2. /\ SharedTypeOK /\ RowsNotForgotten /\ admin \in [Admins -> Tick]
        /\ WellFormed(old) /\ old \in Tick
        /\ Sound(old, clock, lock, next_fire_at, enqueued)
        /\ clock \in Nat /\ old.now \in 0 .. MaxTime /\ lock \in [Jobs -> Nat]
    BY AdminFacts DEF SharedTypeOK, Tick
  <1>3. /\ next_fire_at[j] = t
        /\ old.now + LockTtl <= lock[j]
        /\ old.at # "idle"
    BY <1>1, <1>2 DEF Sound, WellFormed
  <1>4. JobEffect(a, j, t)
    BY <1>1
  <1>5. /\ enqueued' \in [Jobs -> [Times -> Nat]]
        /\ \A k \in Jobs, u \in Times : enqueued[k][u] <= enqueued'[k][u]
    <2>0. PICK f \in [Jobs -> [Times -> Nat]] : f = enqueued
      BY <1>2 DEF SharedTypeOK
    <2>1. CASE enqueued' = [f EXCEPT ![j][t] = @ + 1]
      <3> DEFINE g == [f EXCEPT ![j][t] = @ + 1]
      <3>1. /\ g \in [Jobs -> [Times -> Nat]]
            /\ \A k \in Jobs, u \in Times : f[k][u] <= g[k][u]
        BY Counted
      <3> HIDE DEF g
      <3> QED BY <2>0, <2>1, <3>1 DEF g
    <2>2. CASE enqueued' = f
      BY <2>0, <2>2
    <2> QED BY <1>4, <2>0, <2>1, <2>2 DEF JobEffect
  <1>6. \A k \in Jobs : next_fire_at'[k] = next_fire_at[k] \/ (k = j /\ old.at = "update")
    BY <1>2, <1>4 DEF JobEffect, SharedTypeOK
  <1>7. SharedTypeOK'
    <2>1. executions' \subseteq Jobs \X (Times \ {NoTime})
      BY <1>1, <1>2, <1>4 DEF JobEffect, SharedTypeOK
    <2>3. old.now + Period \in Times
      BY <1>2 DEF Times
    <2>4. next_fire_at' \in [Jobs -> Times]
      BY <1>1, <1>2, <1>4, <2>3 DEF JobEffect, SharedTypeOK
    <2> QED BY <1>2, <1>5, <2>1, <2>4 DEF SharedTypeOK
  <1>8. old.at = "update" => enqueued[j][t] > 0
    BY <1>1, <1>2 DEF Sound
  <1>9. RowsNotForgotten'
    <2> SUFFICES ASSUME NEW e \in executions', enqueued'[e[1]][e[2]] = 0
                 PROVE  next_fire_at'[e[1]] = e[2]
      BY DEF RowsNotForgotten
    <2>1. e[1] \in Jobs /\ e[2] \in Times
      BY <1>7 DEF SharedTypeOK
    <2>2. enqueued[e[1]][e[2]] = 0
      BY <1>2, <1>7, <1>5, <2>1 DEF SharedTypeOK
    <2>3. CASE e \in executions
      <3>1. next_fire_at[e[1]] = e[2]
        BY <1>2, <2>2, <2>3 DEF RowsNotForgotten
      <3>2. ~(e[1] = j /\ old.at = "update")
        BY <1>3, <1>8, <2>2, <3>1
      <3> QED BY <1>6, <2>1, <3>1, <3>2
    <2>4. CASE e \notin executions
      <3>1. old.at = "create" /\ e = <<j, t>>
        BY <1>4, <2>4 DEF JobEffect
      <3> QED BY <1>3, <1>6, <3>1
    <2> QED BY <2>3, <2>4
  <1>10. WellFormed(r)
    <2>1. \A d \in r.due \cup {r.job} : d.next_fire_at <= r.now
      BY <1>2, NotARow DEF WellFormed
    <2> QED BY <1>2, <1>3, <2>1 DEF WellFormed
  <1>11. Sound(r, clock, lock', next_fire_at', enqueued')
    <2>1. r.now <= clock /\ clock <= r.now + MaxStall
      BY <1>2, <1>3 DEF Sound
    <2>2. r.job # NoRow => /\ r.now + LockTtl <= lock'[r.job.id]
                           /\ r.job.next_fire_at = next_fire_at'[r.job.id]
      BY <1>1, <1>3
    <2>3. ASSUME NEW d \in r.due
          PROVE  d.next_fire_at = next_fire_at'[d.id] \/ r.now + MaxStall < lock'[d.id]
      <3>1. d.id \in Jobs /\ (d.next_fire_at = next_fire_at[d.id] \/ old.now + MaxStall < lock[d.id])
        BY <1>2 DEF Sound, Tick, JobRow
      <3>2. CASE d.id = j
        <4>1. lock[j] \in Nat
          BY <1>2
        <4>2. old.now + MaxStall < lock[j]
          <5> HIDE DEF old
          <5> QED BY <1>2, <1>3, <4>1
        <4> QED BY <3>2, <4>2
      <3> QED BY <1>6, <3>1, <3>2
    <2> QED BY <2>1, <2>2, <2>3 DEF Sound
  <1>12. /\ \A k \in Jobs : lock[k] <= lock'[k]
         /\ \A k \in Jobs : next_fire_at'[k] = next_fire_at[k] \/ Processing(a, k)
    BY <1>1, <1>2, <1>6 DEF Processing
  <1>13. \A b \in Admins \ {a} : r.job # NoRow /\ admin[b].job # NoRow =>
                                   r.job.id # admin[b].job.id
    BY OthersJobs
  <1> QED BY <1>7, <1>5, <1>9, <1>10, <1>11, <1>12, <1>13, TickStepInv

LEMMA JobSteps ==
    ASSUME 2 * MaxStall < LockTtl, Inv, NEW a \in Admins,
           \/ CreateOrGet(a) \/ Enqueue(a) \/ UpdateNextFire(a)
           \/ CreateFails(a) \/ EnqueueFails(a) \/ UpdateFails(a)
    PROVE  Inv'
  <1> USE TimingAssumption
  <1> DEFINE old == admin[a]
  <1>1. /\ SharedTypeOK /\ WellFormed(old) /\ old \in Tick
        /\ old.at \in {"create", "enqueue", "update"}
    BY AdminFacts DEF CreateOrGet, Enqueue, UpdateNextFire, CreateFails, EnqueueFails, UpdateFails
  <1>2. old.job # NoRow
    BY <1>1 DEF WellFormed
  <1>3. old.job.id \in Jobs /\ old.job.next_fire_at \in Times
    BY <1>1, <1>2 DEF Tick, JobRow
  <1>4. UNCHANGED <<clock, lock>> /\ failures' \in 0 .. MaxFailures
    BY <1>1 DEF CreateOrGet, Enqueue, UpdateNextFire, CreateFails, EnqueueFails, UpdateFails,
                CountFailure, SharedTypeOK
  <1>5. JobEffect(a, old.job.id, old.job.next_fire_at)
    BY DEF CreateOrGet, Enqueue, UpdateNextFire, CreateFails, EnqueueFails, UpdateFails,
           AddExecution, PushItem, SetNextFire, NextFire, JobEffect
  <1>6. CASE UpdateNextFire(a) \/ CreateFails(a) \/ EnqueueFails(a) \/ UpdateFails(a)
    <2> DEFINE r == [old EXCEPT !.at = "next", !.job = NoRow]
    <2>1. r \in Tick /\ r.now = old.now /\ r.due = old.due /\ r.at = "next" /\ r.job = NoRow
      BY <1>1 DEF Tick
    <2>2. admin' = [admin EXCEPT ![a] = r]
      BY <1>6 DEF UpdateNextFire, CreateFails, EnqueueFails, UpdateFails, AfterFailure, JobDone
    <2> HIDE DEF r
    <2> QED BY <1>2, <1>4, <1>5, <2>1, <2>2, JobStepInv
  <1>7. CASE CreateOrGet(a)
    <2> DEFINE r == [old EXCEPT !.at = "enqueue"]
    <2>1. r \in Tick /\ r.now = old.now /\ r.due = old.due /\ r.at = "enqueue" /\ r.job = old.job
      BY <1>1 DEF Tick
    <2>2. admin' = [admin EXCEPT ![a] = r] /\ UNCHANGED next_fire_at
      BY <1>7 DEF CreateOrGet
    <2> HIDE DEF r
    <2> QED BY <1>2, <1>4, <1>5, <2>1, <2>2, JobStepInv
  <1>8. CASE Enqueue(a)
    <2> DEFINE r == [old EXCEPT !.at = "update"]
    <2>1. r \in Tick /\ r.now = old.now /\ r.due = old.due /\ r.at = "update" /\ r.job = old.job
      BY <1>1 DEF Tick
    <2>2. admin' = [admin EXCEPT ![a] = r] /\ UNCHANGED next_fire_at
      BY <1>8 DEF Enqueue
    <2>3. enqueued'[old.job.id][old.job.next_fire_at] > 0
      BY <1>1, <1>3, <1>8 DEF Enqueue, PushItem, SharedTypeOK
    <2> HIDE DEF r
    <2> QED BY <1>2, <1>4, <1>5, <2>1, <2>2, <2>3, JobStepInv
  <1> QED BY <1>6, <1>7, <1>8

(* A job is created: no snapshot has it and no execution of it exists. *)
LEMMA CreateJobInv ==
    ASSUME Inv, NEW j \in Jobs, NEW t \in Times, CreateJob(j, t)
    PROVE  Inv'
  <1> USE TimingAssumption
  <1>1. /\ UNCHANGED <<clock, lock, executions, enqueued, admin, failures>>
        /\ next_fire_at[j] = NoTime
        /\ next_fire_at' = [next_fire_at EXCEPT ![j] = t]
    BY DEF CreateJob
  <1>2. SharedTypeOK /\ admin \in [Admins -> Tick] /\ RowsNotForgotten
    BY Types DEF Inv
  <1>3. \A k \in Jobs : next_fire_at[k] # NoTime => next_fire_at'[k] = next_fire_at[k]
    BY <1>1, <1>2 DEF SharedTypeOK
  <1>4. SharedTypeOK'
    BY <1>1, <1>2 DEF SharedTypeOK
  <1>5. TypeOK'
    <2>1. \A b \in Admins : WellFormed(admin[b])
      BY Types DEF Inv
    <2> QED BY <1>1, <1>2, <1>4, <2>1 DEF TypeOK, SharedTypeOK, WellFormed
  <1>6. ASSUME NEW b \in Admins
        PROVE  Sound(admin[b], clock, lock, next_fire_at', enqueued)
    <2>1. PICK s \in Tick : s = admin[b]
      BY <1>2
    <2>2. WellFormed(s) /\ Sound(s, clock, lock, next_fire_at, enqueued)
      BY <2>1, Types DEF Inv
    <2>3. s.job # NoRow => /\ s.job.id \in Jobs /\ s.job.next_fire_at # NoTime
                           /\ s.job.next_fire_at = next_fire_at[s.job.id]
      BY <2>2 DEF Sound, Tick, JobRow
    <2>4. s.job # NoRow => s.job.next_fire_at = next_fire_at'[s.job.id]
      BY <1>3, <2>3
    <2>5. ASSUME NEW d \in s.due
          PROVE  d.next_fire_at = next_fire_at'[d.id] \/ s.now + MaxStall < lock[d.id]
      <3>1. d.id \in Jobs /\ d.next_fire_at # NoTime
        BY DEF Tick, JobRow
      <3>2. d.next_fire_at = next_fire_at[d.id] \/ s.now + MaxStall < lock[d.id]
        BY <2>2 DEF Sound
      <3> QED BY <1>3, <3>1, <3>2
    <2>6. Sound(s, clock, lock, next_fire_at', enqueued)
      BY <2>2, <2>4, <2>5 DEF Sound
    <2> QED BY <2>1, <2>6
  <1>7. OneProcessor'
    BY <1>1 DEF Inv, OneProcessor, Processing
  <1>8. RowsNotForgotten'
    BY <1>1, <1>2, <1>3 DEF RowsNotForgotten, SharedTypeOK
  <1> QED BY <1>1, <1>5, <1>6, <1>7, <1>8 DEF Inv

LEMMA PassTimeInv ==
    ASSUME Inv, PassTime
    PROVE  Inv'
  <1> USE TimingAssumption
  <1>1. /\ UNCHANGED <<next_fire_at, lock, executions, enqueued, admin, failures>>
        /\ clock < MaxTime /\ clock' = clock + 1
    BY DEF PassTime
  <1>2. SharedTypeOK /\ clock \in Nat
    BY Types DEF Inv, SharedTypeOK
  <1>3. SharedTypeOK'
    BY <1>1, <1>2 DEF SharedTypeOK
  <1>4. TypeOK'
    BY <1>1, <1>3 DEF Inv, TypeOK, SharedTypeOK
  <1>5. ASSUME NEW b \in Admins
        PROVE  Sound(admin[b], clock', lock, next_fire_at, enqueued)
    <2>1. PICK s \in Tick : s = admin[b]
      BY Types DEF Inv
    <2>2. Sound(s, clock, lock, next_fire_at, enqueued) /\ s.now \in Nat
      BY <2>1 DEF Inv, Tick
    <2>3. s.at # "idle" => clock < s.now + MaxStall
      BY <2>1 DEF PassTime
    <2>4. s.now <= clock' /\ (s.at # "idle" => clock' <= s.now + MaxStall)
      BY <1>1, <1>2, <2>2, <2>3 DEF Sound
    <2>5. Sound(s, clock', lock, next_fire_at, enqueued)
      BY <2>2, <2>4 DEF Sound
    <2> QED BY <2>1, <2>5
  <1>6. OneProcessor' /\ RowsNotForgotten'
    BY <1>1 DEF Inv, OneProcessor, Processing, RowsNotForgotten
  <1> QED BY <1>1, <1>4, <1>5, <1>6 DEF Inv

LEMMA StutterInv == Inv /\ UNCHANGED vars => Inv'
  BY DEF vars, Inv, TypeOK, Sound, OneProcessor, Processing, RowsNotForgotten

LEMMA StepInv ==
    ASSUME 2 * MaxStall < LockTtl, Inv, [Next]_vars
    PROVE  Inv'
  <1>1. ASSUME NEW a \in Admins, TickStep(a)
        PROVE  Inv'
    <2>1. CASE StartTick(a) \/ EndTick(a)
      BY <2>1, PrivateSteps
    <2>2. CASE CreateOrGet(a) \/ Enqueue(a) \/ UpdateNextFire(a)
      BY <2>2, JobSteps
    <2>3. ASSUME NEW d \in admin[a].due, TakeLock(a, d)
          PROVE  Inv'
      BY <2>3, SetLockSteps DEF TakeLock
    <2>4. ASSUME NEW d \in admin[a].due, SkipLocked(a, d)
          PROVE  Inv'
      BY <2>4, PrivateSteps
    <2> QED BY <1>1, <2>1, <2>2, <2>3, <2>4 DEF TickStep
  <1>2. ASSUME NEW a \in Admins, FailureStep(a)
        PROVE  Inv'
    <2>1. CASE ListFails(a) \/ Crash(a)
      BY <2>1, PrivateSteps
    <2>2. CASE CreateFails(a) \/ EnqueueFails(a) \/ UpdateFails(a)
      BY <2>2, JobSteps
    <2>3. ASSUME NEW d \in admin[a].due, LockFails(a, d)
          PROVE  Inv'
      <3>1. CASE LockFree(d.id) /\ SetLock(a, d.id)
        BY <2>3, <3>1, SetLockSteps
      <3>2. CASE UNCHANGED lock
        BY <2>3, <3>2, PrivateSteps
      <3> QED BY <2>3, <3>1, <3>2 DEF LockFails
    <2> QED BY <1>2, <2>1, <2>2, <2>3 DEF FailureStep
  <1>3. ASSUME NEW j \in Jobs, NEW t \in Times, CreateJob(j, t)
        PROVE  Inv'
    BY <1>3, CreateJobInv
  <1> QED BY <1>1, <1>2, <1>3, PassTimeInv, StutterInv DEF Next

-----------------------------------------------------------------------------
(* A tick that is not yet due to find the job may begin Slack after that.  *)
Slack == IF MaxStall = 0 THEN 0 ELSE MaxStall - 1

(* When a job with fire time t must be in hand, after some failures. *)
Deadline(t, count) == t + count * (LockTtl + Late)

(* The job j is processed by a tick that began in time, or the lock lapses *)
(* in time and every admin either is in a tick that began before or has    *)
(* the job in its snapshot.                                                *)
Covered(j, ticks, t, locked, deadline) ==
    \/ \E b \in Admins : /\ ticks[b].job # NoRow /\ ticks[b].job.id = j
                         /\ ticks[b].now <= deadline + Slack
    \/ /\ locked <= deadline
       /\ \A b \in Admins :
             \/ ticks[b].now < deadline
             \/ /\ ticks[b].now <= deadline + Slack
                /\ [id |-> j, next_fire_at |-> t] \in ticks[b].due

Timely ==
    \A j \in Jobs : next_fire_at[j] # NoTime =>
        Covered(j, admin, next_fire_at[j], lock[j], Deadline(next_fire_at[j], failures))

(* An idle admin begins a tick before time passes, and no lock lasts       *)
(* longer than LockTtl.                                                    *)
Pace ==
    /\ \A a \in Admins : clock <= admin[a].now + 1 + Slack
    /\ \A j \in Jobs : /\ lock[j] <= clock + LockTtl
                       /\ lock[j] # 0 => next_fire_at[j] # NoTime

LEMMA Delays ==
    /\ Slack \in Nat /\ Late \in Nat /\ MaxStall \in Nat
    /\ LockTtl \in Nat /\ LockTtl > 0 /\ Period \in Nat
    /\ Late = MaxStall + Slack /\ MaxStall <= 1 + Slack
  BY TimingAssumption DEF Slack, Late

LEMMA Deadlines ==
    ASSUME NEW t \in Nat, NEW count \in Nat
    PROVE  /\ Deadline(t, count) \in Nat
           /\ t <= Deadline(t, count)
           /\ Deadline(t, count + 1) = Deadline(t, count) + LockTtl + Late
  <1> DEFINE b == LockTtl + Late
  <1>1. b \in Nat
    BY Delays
  <1> HIDE DEF b
  <1>2. count * b \in Nat /\ (count + 1) * b = count * b + b
    BY <1>1
  <1>3. /\ Deadline(t, count) = t + count * b
        /\ Deadline(t, count + 1) = t + (count + 1) * b
    BY DEF Deadline, b
  <1>4. b = LockTtl + Late
    BY DEF b
  <1> QED BY <1>1, <1>2, <1>3, <1>4, Delays

LEMMA Numbers ==
    ASSUME Inv
    PROVE  /\ clock \in Nat /\ failures \in Nat
           /\ \A j \in Jobs : next_fire_at[j] \in Nat /\ lock[j] \in Nat
           /\ \A a \in Admins : /\ admin[a].now \in Nat /\ admin[a].now <= clock
                                /\ admin[a].at # "idle" => clock <= admin[a].now + MaxStall
                                /\ admin[a].job # NoRow => admin[a].at # "idle"
                                /\ admin[a].due # {} => admin[a].at # "idle"
  <1>1. SharedTypeOK
    BY Types DEF Inv
  <1>2. ASSUME NEW a \in Admins
        PROVE  /\ admin[a].now \in Nat /\ admin[a].now <= clock
               /\ admin[a].at # "idle" => clock <= admin[a].now + MaxStall
               /\ admin[a].job # NoRow => admin[a].at # "idle"
               /\ admin[a].due # {} => admin[a].at # "idle"
    BY AdminFacts DEF Sound, WellFormed, Tick
  <1> QED BY <1>1, <1>2, TimingAssumption DEF SharedTypeOK, Times

LEMMA OnTime ==
    ASSUME Admins # {}, Inv, Pace, Timely
    PROVE  OverdueBounded
  <1> SUFFICES ASSUME NEW j \in Jobs, next_fire_at[j] # NoTime
               PROVE  clock <= next_fire_at[j] + Late + failures * (LockTtl + Late)
    BY DEF OverdueBounded
  <1> DEFINE k == Deadline(next_fire_at[j], failures)
  <1>1. k \in Nat
    BY Numbers, Deadlines
  <1>2. Covered(j, admin, next_fire_at[j], lock[j], k)
    BY DEF Timely
  <1>3. clock <= k + Late
    <2> HIDE DEF k
    <2>1. CASE \E b \in Admins : /\ admin[b].job # NoRow /\ admin[b].job.id = j
                                 /\ admin[b].now <= k + Slack
      BY <1>1, <2>1, Numbers, Delays
    <2>2. CASE \A b \in Admins :
                  \/ admin[b].now < k
                  \/ /\ admin[b].now <= k + Slack
                     /\ [id |-> j, next_fire_at |-> next_fire_at[j]] \in admin[b].due
      <3>1. PICK b \in Admins : TRUE
        OBVIOUS
      <3>2. CASE admin[b].now < k
        BY <1>1, <3>2, Numbers, Delays DEF Pace
      <3>3. CASE admin[b].now <= k + Slack /\ admin[b].due # {}
        BY <1>1, <3>3, Numbers, Delays
      <3> QED BY <2>2, <3>2, <3>3
    <2> QED BY <1>2, <2>1, <2>2 DEF Covered
  <1>4. failures * (LockTtl + Late) \in Nat
    BY Numbers, Delays
  <1>5. k = next_fire_at[j] + failures * (LockTtl + Late)
    BY DEF Deadline
  <1> QED BY <1>3, <1>4, <1>5, Numbers, Delays

LEMMA InitTimely == Init => Pace /\ Timely
  <1> SUFFICES ASSUME Init PROVE Pace /\ Timely
    OBVIOUS
  <1>1. \A a \in Admins : admin[a].now = 0
    BY DEF Init, IdleAdmin
  <1> QED BY <1>1, Delays DEF Init, Pace, Timely

(* What any step of an admin leaves as it was. *)
LEMMA AdminStep ==
    ASSUME 2 * MaxStall < LockTtl, Inv, NEW a \in Admins, TickStep(a) \/ FailureStep(a)
    PROVE  /\ clock' = clock
           /\ \A b \in Admins : b # a => admin'[b] = admin[b]
           /\ admin'[a].now \in {admin[a].now, clock}
           /\ \A j \in Jobs : \/ lock'[j] = lock[j]
                              \/ lock'[j] = clock + LockTtl /\ next_fire_at[j] # NoTime
           /\ FailureStep(a) => failures' = failures + 1
  <1>1. /\ admin \in [Admins -> Tick] /\ lock \in [Jobs -> Nat]
        /\ admin[a] = [at |-> admin[a].at, now |-> admin[a].now, due |-> admin[a].due, job |-> admin[a].job]
    BY AdminFacts, TickRecord DEF SharedTypeOK
  <1>2. ASSUME NEW r, admin' = [admin EXCEPT ![a] = r], r.now \in {admin[a].now, clock}
        PROVE  /\ \A b \in Admins : b # a => admin'[b] = admin[b]
               /\ admin'[a].now \in {admin[a].now, clock}
    BY <1>1, <1>2
  <1>3. \E r : admin' = [admin EXCEPT ![a] = r] /\ r.now \in {admin[a].now, clock}
    <2> DEFINE old == admin[a]
               Moved(r) == admin' = [admin EXCEPT ![a] = r] /\ r.now \in {old.now, clock}
    <2>0. old \in Tick
      BY <1>1
    <2>1. CASE StartTick(a)
      <3>1. Moved([at |-> "next", now |-> clock, due |-> DueRows(clock), job |-> NoRow])
        BY <2>1 DEF StartTick
      <3> QED BY <3>1
    <2>2. CASE Crash(a)
      <3>1. Moved(IdleAdmin(old.now))
        BY <2>2 DEF Crash, IdleAdmin
      <3> QED BY <3>1
    <2>3. CASE ListFails(a)
      <3>1. Moved([old EXCEPT !.now = clock])
        BY <1>1, <2>0, <2>3 DEF ListFails, Tick
      <3> QED BY <3>1
    <2>4. CASE EndTick(a) \/ CreateOrGet(a) \/ Enqueue(a)
      <3>1. \E at : Moved([old EXCEPT !.at = at])
        BY <1>1, <2>0, <2>4 DEF EndTick, CreateOrGet, Enqueue, Tick
      <3> QED BY <3>1
    <2>5. CASE UpdateNextFire(a) \/ CreateFails(a) \/ EnqueueFails(a) \/ UpdateFails(a)
      <3>1. Moved([old EXCEPT !.at = "next", !.job = NoRow])
        BY <1>1, <2>0, <2>5 DEF UpdateNextFire, CreateFails, EnqueueFails, UpdateFails,
                                AfterFailure, JobDone, Tick
      <3> QED BY <3>1
    <2>6. ASSUME NEW d \in old.due, SkipLocked(a, d) \/ LockFails(a, d)
          PROVE  \E r : Moved(r)
      <3>1. Moved([old EXCEPT !.due = old.due \ {d}])
        BY <1>1, <2>0, <2>6 DEF SkipLocked, LockFails, Tick
      <3> QED BY <3>1
    <2>7. ASSUME NEW d \in old.due, TakeLock(a, d)
          PROVE  \E r : Moved(r)
      <3>1. Moved([old EXCEPT !.at = "create", !.due = old.due \ {d}, !.job = d])
        BY <1>1, <2>0, <2>7 DEF TakeLock, Tick
      <3> QED BY <3>1
    <2> QED BY <2>1, <2>2, <2>3, <2>4, <2>5, <2>6, <2>7 DEF TickStep, FailureStep
  <1>4. clock' = clock
    BY DEF TickStep, FailureStep, StartTick, TakeLock, SkipLocked, CreateOrGet, Enqueue,
           UpdateNextFire, EndTick, ListFails, LockFails, CreateFails, EnqueueFails, UpdateFails, Crash
  <1>5. FailureStep(a) => failures' = failures + 1
    BY DEF FailureStep, ListFails, LockFails, CreateFails, EnqueueFails, UpdateFails, Crash, CountFailure
  <1>6. \A j \in Jobs : \/ lock'[j] = lock[j]
                        \/ lock'[j] = clock + LockTtl /\ next_fire_at[j] # NoTime
    <2> SUFFICES ASSUME NEW j \in Jobs, lock'[j] # lock[j]
                 PROVE  lock'[j] = clock + LockTtl /\ next_fire_at[j] # NoTime
      OBVIOUS
    <2>1. ASSUME NEW d \in admin[a].due, LockFree(d.id), lock' = [lock EXCEPT ![d.id] = clock + LockTtl]
          PROVE  lock'[j] = clock + LockTtl /\ next_fire_at[j] # NoTime
      <3>1. d \in JobRow /\ next_fire_at[d.id] = d.next_fire_at
        BY <2>1, FreeLock
      <3>2. d.next_fire_at # NoTime
        BY <3>1 DEF JobRow
      <3>3. j = d.id /\ lock'[j] = clock + LockTtl
        BY <1>1, <2>1
      <3> QED BY <3>1, <3>2, <3>3
    <2>2. \/ lock' = lock
          \/ \E d \in admin[a].due : /\ LockFree(d.id)
                                     /\ lock' = [lock EXCEPT ![d.id] = clock + LockTtl]
      BY DEF TickStep, FailureStep, StartTick, TakeLock, SkipLocked, CreateOrGet, Enqueue,
             UpdateNextFire, EndTick, ListFails, LockFails, CreateFails, EnqueueFails, UpdateFails,
             Crash, SetLock, Lapse
    <2> QED BY <2>1, <2>2
  <1> QED BY <1>2, <1>3, <1>4, <1>5, <1>6

(* Fire times only move on. *)
LEMMA FireTimesMoveOn ==
    ASSUME 2 * MaxStall < LockTtl, Inv, [Next]_vars, NEW j \in Jobs,
           next_fire_at[j] # NoTime, next_fire_at'[j] # next_fire_at[j]
    PROVE  /\ enqueued[j][next_fire_at[j]] > 0
           /\ next_fire_at[j] < next_fire_at'[j]
  <1> USE TimingAssumption
  <1>1. SharedTypeOK
    BY Types DEF Inv
  <1>2. PICK a \in Admins : UpdateNextFire(a) \/ UpdateFails(a)
    <2>1. ASSUME NEW k \in Jobs, NEW t \in Times, CreateJob(k, t)
          PROVE  FALSE
      BY <1>1, <2>1 DEF CreateJob, SharedTypeOK
    <2> QED BY <2>1 DEF Next, vars, TickStep, FailureStep, StartTick, TakeLock, SkipLocked,
               CreateOrGet, Enqueue, EndTick, ListFails, LockFails, CreateFails, EnqueueFails,
               Crash, PassTime
  <1>3. /\ admin[a].at = "update"
        /\ next_fire_at' = [next_fire_at EXCEPT ![admin[a].job.id] = admin[a].now + Period]
    BY <1>2 DEF UpdateNextFire, UpdateFails, SetNextFire, NextFire
  <1>4. /\ WellFormed(admin[a]) /\ admin[a] \in Tick
        /\ Sound(admin[a], clock, lock, next_fire_at, enqueued)
    BY Types DEF Inv
  <1>5. admin[a].job.id = j /\ next_fire_at'[j] = admin[a].now + Period
    BY <1>1, <1>3 DEF SharedTypeOK
  <1>6. admin[a].job # NoRow
    BY <1>3, <1>4 DEF WellFormed
  <1>7. /\ admin[a].job.next_fire_at = next_fire_at[j]
        /\ enqueued[j][next_fire_at[j]] > 0
        /\ next_fire_at[j] <= admin[a].now
    BY <1>3, <1>4, <1>5, <1>6 DEF Sound, WellFormed
  <1>8. admin[a].now \in Nat /\ next_fire_at[j] \in Nat
    BY <1>1, <1>4 DEF Tick, SharedTypeOK, Times
  <1> QED BY <1>5, <1>7, <1>8

LEMMA PaceStep ==
    ASSUME 2 * MaxStall < LockTtl, Inv, Pace, [Next]_vars
    PROVE  Pace'
  <1>1. Inv'
    BY StepInv
  <1>2. \A j \in Jobs : next_fire_at[j] # NoTime => next_fire_at'[j] # NoTime
    BY FireTimesMoveOn, Numbers DEF NoTime
  <1>3. ASSUME NEW a \in Admins, TickStep(a) \/ FailureStep(a)
        PROVE  Pace'
    <2>1. /\ clock' = clock
          /\ \A b \in Admins : b # a => admin'[b] = admin[b]
          /\ admin'[a].now \in {admin[a].now, clock}
          /\ \A j \in Jobs : \/ lock'[j] = lock[j]
                             \/ lock'[j] = clock + LockTtl /\ next_fire_at[j] # NoTime
      BY <1>3, AdminStep
    <2>2. \A b \in Admins : clock' <= admin'[b].now + 1 + Slack
      BY <2>1, Numbers, Delays DEF Pace
    <2>3. \A j \in Jobs : /\ lock'[j] <= clock' + LockTtl
                          /\ lock'[j] # 0 => next_fire_at'[j] # NoTime
      BY <1>2, <2>1, Numbers, Delays DEF Pace
    <2> QED BY <2>1, <2>2, <2>3 DEF Pace
  <1>4. ASSUME NEW j \in Jobs, NEW t \in Times, CreateJob(j, t)
        PROVE  Pace'
    BY <1>2, <1>4 DEF Pace, CreateJob
  <1>5. CASE PassTime
    <2>1. /\ UNCHANGED <<next_fire_at, lock, admin>> /\ clock' = clock + 1
          /\ \A a \in Admins : IF admin[a].at = "idle" THEN admin[a].now = clock
                               ELSE clock < admin[a].now + MaxStall
      BY <1>5 DEF PassTime
    <2>2. \A a \in Admins : clock + 1 <= admin[a].now + 1 + Slack
      BY <2>1, Numbers, Delays
    <2>3. \A j \in Jobs : lock[j] <= clock + 1 + LockTtl
      BY Numbers, Delays DEF Pace
    <2> QED BY <2>1, <2>2, <2>3 DEF Pace
  <1>6. CASE UNCHANGED vars
    BY <1>6 DEF vars, Pace
  <1> QED BY <1>3, <1>4, <1>5, <1>6 DEF Next

LEMMA LaterDeadlines ==
    ASSUME NEW t \in Nat, NEW u \in Nat, t <= u, NEW count \in Nat
    PROVE  Deadline(t, count) <= Deadline(u, count)
  <1>1. count * (LockTtl + Late) \in Nat
    BY Delays
  <1> QED BY <1>1 DEF Deadline

(* A failure puts every deadline off until the locks that are set lapse.   *)
LEMMA FailureTimely ==
    ASSUME 2 * MaxStall < LockTtl, Admins # {}, Inv, Pace, Timely,
           NEW a \in Admins, FailureStep(a)
    PROVE  Timely'
  <1> SUFFICES ASSUME NEW j \in Jobs, next_fire_at'[j] # NoTime
               PROVE  Covered(j, admin', next_fire_at'[j], lock'[j],
                              Deadline(next_fire_at'[j], failures'))
    BY DEF Timely
  <1>1. /\ clock' = clock
        /\ \A b \in Admins : b # a => admin'[b] = admin[b]
        /\ admin'[a].now \in {admin[a].now, clock}
        /\ lock'[j] = lock[j] \/ lock'[j] = clock + LockTtl
        /\ failures' = failures + 1
    BY AdminStep
  <1>2. next_fire_at[j] # NoTime
    <2>1. CASE next_fire_at'[j] = next_fire_at[j]
      BY <2>1
    <2>2. CASE UpdateFails(a) /\ next_fire_at'[j] # next_fire_at[j]
      <3>1. /\ admin[a].job.id = j /\ admin[a].job \in JobRow
            /\ admin[a].job.next_fire_at = next_fire_at[j]
        BY <2>2, AdminFacts DEF UpdateFails, SetNextFire, WellFormed, Tick, Sound, SharedTypeOK
      <3> QED BY <3>1 DEF JobRow
    <2> QED BY <2>1, <2>2 DEF FailureStep, ListFails, LockFails, CreateFails, EnqueueFails, Crash
  <1>3. PICK t \in Nat, u \in Nat : t = next_fire_at[j] /\ u = next_fire_at'[j] /\ t <= u
    <2>1. next_fire_at[j] \in Nat
      BY Numbers
    <2>2. next_fire_at'[j] \in Nat
      <3>1. Inv'
        BY StepInv DEF Next
      <3> QED BY <3>1, TimingAssumption DEF Inv, TypeOK, Times
    <2>3. next_fire_at[j] <= next_fire_at'[j]
      BY <1>2, <2>1, <2>2, FireTimesMoveOn DEF Next
    <2> QED BY <2>1, <2>2, <2>3
  <1>4. PICK k \in Nat : k = Deadline(u, failures')
    <2>1. failures + 1 \in Nat
      BY Numbers
    <2> QED BY <1>1, <2>1, Deadlines
  <1>5. clock + LockTtl <= k
    <2>1. clock <= Deadline(t, failures) + Late
      <3>1. clock <= t + Late + failures * (LockTtl + Late)
        BY <1>2, <1>3, OnTime DEF OverdueBounded
      <3>2. failures * (LockTtl + Late) \in Nat
        BY Numbers, Delays
      <3> QED BY <3>1, <3>2, Numbers, Delays DEF Deadline
    <2>2. Deadline(t, failures) <= Deadline(u, failures)
      BY <1>3, Numbers, LaterDeadlines
    <2>3. k = Deadline(u, failures) + LockTtl + Late
      BY <1>1, <1>3, <1>4, Numbers, Deadlines
    <2>4. Deadline(t, failures) \in Nat /\ Deadline(u, failures) \in Nat
      BY <1>3, Numbers, Deadlines
    <2> QED BY <2>1, <2>2, <2>3, <2>4, Numbers, Delays
  <1>6. lock'[j] <= k
    BY <1>1, <1>5, Numbers, Delays DEF Pace
  <1>7. \A b \in Admins : admin'[b].now < k
    BY <1>1, <1>5, Numbers, Delays
  <1> QED BY <1>3, <1>4, <1>6, <1>7 DEF Covered

(* A step of a tick that goes well, for a job whose fire time it leaves.   *)
LEMMA TickCovers ==
    ASSUME 2 * MaxStall < LockTtl, Inv, Pace, NEW a \in Admins, TickStep(a),
           NEW j \in Jobs, next_fire_at[j] # NoTime, next_fire_at'[j] = next_fire_at[j],
           NEW k \in Nat, next_fire_at[j] <= k,
           Covered(j, admin, next_fire_at[j], lock[j], k)
    PROVE  Covered(j, admin', next_fire_at[j], lock'[j], k)
  <1> DEFINE old == admin[a]
             t == next_fire_at[j]
             row == [id |-> j, next_fire_at |-> t]
             InHand(r) == r.job # NoRow /\ r.job.id = j /\ r.now <= k + Slack
             Coming(r) == r.now < k \/ (r.now <= k + Slack /\ row \in r.due)
  <1>1. /\ admin \in [Admins -> Tick] /\ old \in Tick /\ WellFormed(old)
        /\ lock \in [Jobs -> Nat] /\ clock \in Nat /\ old.now \in Nat /\ old.now <= clock
    BY AdminFacts, Numbers DEF SharedTypeOK
  <1>2. \/ \E b \in Admins : InHand(admin[b])
        \/ lock[j] <= k /\ \A b \in Admins : Coming(admin[b])
    BY DEF Covered
  <1>3. ASSUME NEW r, admin' = [admin EXCEPT ![a] = r], lock'[j] = lock[j],
               InHand(old) => InHand(r),
               lock[j] <= k /\ Coming(old) => Coming(r)
        PROVE  Covered(j, admin', t, lock'[j], k)
    <2>1. admin'[a] = r /\ \A b \in Admins : b # a => admin'[b] = admin[b]
      BY <1>1, <1>3
    <2>2. \/ \E b \in Admins : InHand(admin'[b])
          \/ lock'[j] <= k /\ \A b \in Admins : Coming(admin'[b])
      BY <1>2, <1>3, <2>1
    <2> QED BY <2>2 DEF Covered
  <1>4. CASE StartTick(a)
    <2> DEFINE r == [at |-> "next", now |-> clock, due |-> DueRows(clock), job |-> NoRow]
    <2>1. admin' = [admin EXCEPT ![a] = r] /\ lock' = lock /\ old.at = "idle"
      BY <1>4 DEF StartTick
    <2>2. old.job = NoRow /\ old.due = {}
      BY <1>1, <2>1 DEF WellFormed
    <2>3. r.now = clock /\ r.due = DueRows(clock)
      OBVIOUS
    <2> HIDE DEF r
    <2>4. ASSUME Coming(old)
          PROVE  Coming(r)
      <3>1. clock <= k + Slack
        BY <2>2, <2>4, <1>1, Delays DEF Pace
      <3>2. CASE clock < k
        BY <2>3, <3>2
      <3>3. CASE k <= clock
        <4>1. IsDue(j, clock)
          BY <1>1, <3>3, Numbers DEF IsDue
        <4>2. row \in DueRows(clock)
          BY <4>1 DEF DueRows
        <4> QED BY <2>3, <3>1, <4>2
      <3> QED BY <1>1, <3>2, <3>3
    <2> QED BY <1>3, <2>1, <2>2, <2>4
  <1>5. CASE EndTick(a) \/ CreateOrGet(a) \/ Enqueue(a)
    <2>1. PICK at : admin' = [admin EXCEPT ![a] = [old EXCEPT !.at = at]]
      BY <1>1, <1>5 DEF EndTick, CreateOrGet, Enqueue, Tick
    <2> DEFINE r == [old EXCEPT !.at = at]
    <2>2. r.now = old.now /\ r.due = old.due /\ r.job = old.job
      BY <1>1 DEF Tick
    <2>3. lock' = lock
      BY <1>5 DEF EndTick, CreateOrGet, Enqueue
    <2> HIDE DEF r
    <2>4. admin' = [admin EXCEPT ![a] = r]
      BY <2>1 DEF r
    <2> QED BY <1>3, <2>2, <2>3, <2>4
  <1>6. CASE UpdateNextFire(a)
    <2> DEFINE r == [old EXCEPT !.at = "next", !.job = NoRow]
    <2>1. admin' = [admin EXCEPT ![a] = r] /\ lock' = lock /\ old.at = "update"
      BY <1>6 DEF UpdateNextFire, JobDone
    <2>2. r.now = old.now /\ r.due = old.due
      BY <1>1 DEF Tick
    <2>3. ~InHand(old)
      <3> SUFFICES ASSUME old.job # NoRow, old.job.id = j PROVE FALSE
        OBVIOUS
      <3>1. next_fire_at'[j] = old.now + Period
        BY <1>6, AdminFacts DEF UpdateNextFire, SetNextFire, NextFire, SharedTypeOK
      <3>2. next_fire_at[j] <= old.now
        BY AdminFacts DEF Sound, WellFormed
      <3>3. Period > 0 /\ next_fire_at[j] \in Nat
        BY Numbers, TimingAssumption
      <3> QED BY <1>1, <3>1, <3>2, <3>3, Delays
    <2> HIDE DEF r, old
    <2>4. Coming(old) => Coming(r)
      BY <2>2
    <2> QED BY <1>3, <2>1, <2>3, <2>4 DEF old
  <1>7. ASSUME NEW d \in old.due, SkipLocked(a, d)
        PROVE  Covered(j, admin', t, lock'[j], k)
    <2> DEFINE r == [old EXCEPT !.due = old.due \ {d}]
    <2>1. /\ admin' = [admin EXCEPT ![a] = r] /\ lock' = lock
          /\ old.at = "next" /\ ~LockFree(d.id)
      BY <1>7 DEF SkipLocked
    <2>2. r.now = old.now /\ r.due = old.due \ {d} /\ r.job = old.job
      BY <1>1 DEF Tick
    <2> HIDE DEF r
    <2>3. ASSUME lock[j] <= k, Coming(old)
          PROVE  Coming(r)
      <3>1. CASE old.now < k
        BY <2>2, <3>1
      <3>2. CASE k <= old.now
        <4>1. LockFree(j)
          BY <1>1, <2>3, <3>2 DEF LockFree
        <4>2. row # d
          BY <2>1, <4>1
        <4> QED BY <1>1, <2>2, <2>3, <3>2, <4>2
      <3> QED BY <1>1, <3>1, <3>2
    <2> QED BY <1>3, <2>1, <2>2, <2>3
  <1>8. ASSUME NEW d \in old.due, TakeLock(a, d)
        PROVE  Covered(j, admin', t, lock'[j], k)
    <2> DEFINE r == [old EXCEPT !.at = "create", !.due = old.due \ {d}, !.job = d]
    <2>1. /\ admin' = [admin EXCEPT ![a] = r] /\ old.at = "next" /\ LockFree(d.id)
          /\ lock' = [lock EXCEPT ![d.id] = clock + LockTtl]
      BY <1>8 DEF TakeLock, SetLock, Lapse
    <2>2. r.now = old.now /\ r.due = old.due \ {d} /\ r.job = d
      BY <1>1 DEF Tick
    <2>3. /\ d # NoRow /\ old.job = NoRow
          /\ \A b \in Admins : admin[b].job # NoRow => admin[b].job.id # d.id
      BY <1>1, <2>1, FreeLock, NotARow DEF WellFormed
    <2>4. admin'[a] = r
      BY <1>1, <2>1
    <2> HIDE DEF r
    <2>5. CASE d.id = j
      <3>1. Coming(old)
        BY <1>2, <2>3, <2>5
      <3>2. r.now <= k + Slack
        BY <1>1, <2>2, <3>1, Delays
      <3> QED BY <2>2, <2>3, <2>4, <2>5, <3>2 DEF Covered
    <2>6. CASE d.id # j
      <3>1. lock'[j] = lock[j]
        BY <1>1, <2>1, <2>6
      <3>2. row # d
        BY <2>6
      <3>3. Coming(old) => Coming(r)
        BY <2>2, <3>2
      <3> QED BY <1>3, <2>1, <2>3, <3>1, <3>3
    <2> QED BY <2>5, <2>6
  <1> QED BY <1>4, <1>5, <1>6, <1>7, <1>8 DEF TickStep

(* The tick that moves the fire time of the job on began so short before   *)
(* that the lock has lapsed when the job is due again.                     *)
LEMMA ServedCovers ==
    ASSUME 2 * MaxStall < LockTtl, LockTtl + MaxStall <= Period, Inv, Pace,
           NEW a \in Admins, UpdateNextFire(a), NEW j \in Jobs, next_fire_at'[j] # next_fire_at[j]
    PROVE  Covered(j, admin', next_fire_at'[j], lock'[j], Deadline(next_fire_at'[j], failures'))
  <1>1. /\ admin[a].now \in Nat /\ clock <= admin[a].now + MaxStall
        /\ next_fire_at'[j] = admin[a].now + Period
        /\ lock' = lock /\ failures' = failures
    BY AdminFacts, Numbers DEF UpdateNextFire, SetNextFire, NextFire, SharedTypeOK
  <1>2. PICK k \in Nat : k = Deadline(next_fire_at'[j], failures') /\ next_fire_at'[j] <= k
    <2>1. next_fire_at'[j] \in Nat /\ failures' \in Nat
      BY <1>1, Numbers, Delays
    <2> QED BY <2>1, Deadlines
  <1>3. lock'[j] <= k
    BY <1>1, <1>2, Numbers, Delays DEF Pace
  <1>4. \A b \in Admins : admin'[b].now < k
    <2>1. \A b \in Admins : admin'[b].now \in {admin[b].now, clock}
      BY AdminStep DEF TickStep
    <2> QED BY <1>1, <1>2, <2>1, Numbers, Delays
  <1> QED BY <1>2, <1>3, <1>4 DEF Covered

LEMMA TickTimely ==
    ASSUME 2 * MaxStall < LockTtl, LockTtl + MaxStall <= Period, Inv, Pace, Timely,
           NEW a \in Admins, TickStep(a)
    PROVE  Timely'
  <1> SUFFICES ASSUME NEW j \in Jobs, next_fire_at'[j] # NoTime
               PROVE  Covered(j, admin', next_fire_at'[j], lock'[j],
                              Deadline(next_fire_at'[j], failures'))
    BY DEF Timely
  <1>1. failures' = failures
    BY DEF TickStep, StartTick, TakeLock, SkipLocked, CreateOrGet, Enqueue, UpdateNextFire, EndTick
  <1>2. CASE next_fire_at'[j] = next_fire_at[j]
    <2>1. PICK k \in Nat : k = Deadline(next_fire_at[j], failures) /\ next_fire_at[j] <= k
      BY Numbers, Deadlines
    <2>2. Covered(j, admin, next_fire_at[j], lock[j], k)
      BY <1>2, <2>1 DEF Timely
    <2>3. Covered(j, admin', next_fire_at[j], lock'[j], k)
      BY <1>2, <2>1, <2>2, TickCovers
    <2> QED BY <1>1, <1>2, <2>1, <2>3
  <1>3. CASE next_fire_at'[j] # next_fire_at[j]
    <2>1. UpdateNextFire(a)
      BY <1>3 DEF TickStep, StartTick, TakeLock, SkipLocked, CreateOrGet, Enqueue, EndTick
    <2> QED BY <1>3, <2>1, ServedCovers
  <1> QED BY <1>2, <1>3

(* A new job is due in the future and has no lock. *)
LEMMA CreateTimely ==
    ASSUME Inv, Pace, Timely, NEW i \in Jobs, NEW t \in Times, CreateJob(i, t)
    PROVE  Timely'
  <1> SUFFICES ASSUME NEW j \in Jobs, next_fire_at'[j] # NoTime
               PROVE  Covered(j, admin', next_fire_at'[j], lock'[j],
                              Deadline(next_fire_at'[j], failures'))
    BY DEF Timely
  <1>1. UNCHANGED <<lock, admin, failures>>
    BY DEF CreateJob
  <1>2. CASE next_fire_at'[j] = next_fire_at[j]
    BY <1>1, <1>2 DEF Timely
  <1>3. CASE next_fire_at'[j] # next_fire_at[j]
    <2>1. /\ next_fire_at'[j] = t /\ clock < t /\ next_fire_at[j] = NoTime
          /\ t \in Nat
      BY <1>3, AdminFacts, Types, TimingAssumption DEF CreateJob, FirstAhead, Inv, SharedTypeOK, Times
    <2>2. PICK k \in Nat : k = Deadline(t, failures) /\ t <= k
      BY <2>1, Numbers, Deadlines
    <2>3. lock[j] = 0
      BY <2>1 DEF Pace
    <2>4. \A b \in Admins : admin[b].now < k
      BY <2>1, <2>2, Numbers
    <2> QED BY <1>1, <2>1, <2>2, <2>3, <2>4 DEF Covered
  <1> QED BY <1>2, <1>3

LEMMA TimelyStep ==
    ASSUME 2 * MaxStall < LockTtl, LockTtl + MaxStall <= Period, Admins # {},
           Inv, Pace, Timely, [Next]_vars
    PROVE  Timely'
  <1>1. CASE PassTime \/ UNCHANGED vars
    <2>1. UNCHANGED <<next_fire_at, lock, admin, failures>>
      BY <1>1 DEF PassTime, vars
    <2> QED BY <2>1 DEF Timely
  <1> QED BY <1>1, TickTimely, FailureTimely, CreateTimely DEF Next

-----------------------------------------------------------------------------
(* The job k is not being taken off its fire time, though the execution of *)
(* that time was enqueued: somebody has failed to move it on.              *)
Left(k, fire, pushed, ticks) ==
    /\ fire[k] # NoTime /\ pushed[k][fire[k]] > 0
    /\ \A b \in Admins : ticks[b].at = "update" => ticks[b].job.id # k

(* The c-th push for the fire time t of k has a failure of its own: it was *)
(* made after that failure, or is the one that the job waits for.          *)
IsPaid(k, t, c, fire, pushed, ticks) ==
    /\ 2 <= c
    /\ \/ c <= pushed[k][t]
       \/ Left(k, fire, pushed, ticks) /\ t = fire[k] /\ c = pushed[k][t] + 1

Paid == {p \in Jobs \X (Times \X Nat) :
           IsPaid(p[1], p[2][1], p[2][2], next_fire_at, enqueued, admin)}

(* No time ahead of the fire time has been enqueued. *)
Past == \A k \in Jobs, t \in Times : enqueued[k][t] > 0 => t # NoTime /\ t <= next_fire_at[k]

Accounted == Past /\ IsFiniteSet(Paid) /\ Cardinality(Paid) <= failures

LEMMA InitAccounted == Init => Accounted
  <1> SUFFICES ASSUME Init PROVE Accounted
    OBVIOUS
  <1>1. \A k \in Jobs, t \in Times : enqueued[k][t] = 0
    BY DEF Init
  <1>2. \A k \in Jobs : next_fire_at[k] = NoTime
    BY DEF Init
  <1>3. Paid = {}
    BY <1>1, <1>2 DEF Paid, IsPaid, Left
  <1>4. failures = 0
    BY DEF Init
  <1> QED BY <1>1, <1>3, <1>4, FS_EmptySet DEF Accounted, Past

(* A step that pays for nothing new. *)
LEMMA NothingNew ==
    ASSUME Accounted, failures \in Nat, failures' \in Nat, failures <= failures',
           \A k \in Jobs, t \in Times, c \in Nat :
              IsPaid(k, t, c, next_fire_at', enqueued', admin') =>
                  IsPaid(k, t, c, next_fire_at, enqueued, admin)
    PROVE  IsFiniteSet(Paid') /\ Cardinality(Paid') <= failures'
  <1>1. Paid' \subseteq Paid
    BY DEF Paid
  <1>2. IsFiniteSet(Paid') /\ Cardinality(Paid') <= Cardinality(Paid)
    BY <1>1, FS_Subset DEF Accounted
  <1>3. Cardinality(Paid) \in Nat /\ Cardinality(Paid') \in Nat
    BY <1>2, FS_CardinalityType DEF Accounted
  <1> QED BY <1>2, <1>3 DEF Accounted

(* A failure pays for one push. *)
LEMMA OneNew ==
    ASSUME Accounted, failures \in Nat, failures' = failures + 1,
           NEW j \in Jobs, NEW u \in Times, NEW n \in Nat,
           \A k \in Jobs, t \in Times, c \in Nat :
              IsPaid(k, t, c, next_fire_at', enqueued', admin') =>
                  \/ IsPaid(k, t, c, next_fire_at, enqueued, admin)
                  \/ k = j /\ t = u /\ c = n
    PROVE  IsFiniteSet(Paid') /\ Cardinality(Paid') <= failures'
  <1> DEFINE new == <<j, <<u, n>>>>
             all == Paid \cup {new}
  <1>1. Paid' \subseteq all
    <2> SUFFICES ASSUME NEW p \in Paid', p \notin Paid PROVE p = new
      OBVIOUS
    <2>1. /\ p[1] \in Jobs /\ p[2] \in Times \X Nat /\ p = <<p[1], p[2]>>
          /\ IsPaid(p[1], p[2][1], p[2][2], next_fire_at', enqueued', admin')
      BY DEF Paid
    <2>2. p[2][1] \in Times /\ p[2][2] \in Nat /\ p[2] = <<p[2][1], p[2][2]>>
      BY <2>1
    <2>3. ~IsPaid(p[1], p[2][1], p[2][2], next_fire_at, enqueued, admin)
      BY <2>1, <2>2 DEF Paid
    <2>4. p[1] = j /\ p[2][1] = u /\ p[2][2] = n
      BY <2>1, <2>2, <2>3
    <2> QED BY <2>1, <2>2, <2>4
  <1>2. IsFiniteSet(all) /\ Cardinality(all) <= Cardinality(Paid) + 1
    <2>1. Cardinality(Paid) \in Nat
      BY FS_CardinalityType DEF Accounted
    <2>2. /\ IsFiniteSet(all)
          /\ Cardinality(all) = IF new \in Paid THEN Cardinality(Paid) ELSE Cardinality(Paid) + 1
      BY FS_AddElement DEF Accounted
    <2> HIDE DEF all, new
    <2> QED BY <2>1, <2>2
  <1>3. IsFiniteSet(Paid') /\ Cardinality(Paid') <= Cardinality(all)
    BY <1>1, <1>2, FS_Subset
  <1>4. Cardinality(Paid) \in Nat /\ Cardinality(Paid') \in Nat /\ Cardinality(all) \in Nat
    BY <1>2, <1>3, FS_CardinalityType DEF Accounted
  <1> HIDE DEF all
  <1> QED BY <1>2, <1>3, <1>4 DEF Accounted

(* A step that moves no job on, enqueues nothing and ends no update. *)
LEMMA NothingMoved ==
    ASSUME Accounted, Inv, failures' \in Nat, failures <= failures',
           UNCHANGED <<next_fire_at, enqueued>>,
           \A b \in Admins : admin[b].at = "update" =>
              admin'[b].at = "update" /\ admin'[b].job = admin[b].job
    PROVE  Accounted'
  <1>1. \A k \in Jobs, t \in Times, c \in Nat :
           IsPaid(k, t, c, next_fire_at', enqueued', admin') =>
               IsPaid(k, t, c, next_fire_at, enqueued, admin)
    BY DEF IsPaid, Left
  <1>2. Past'
    BY DEF Accounted, Past
  <1> QED BY <1>1, <1>2, NothingNew, Numbers DEF Accounted

LEMMA InHandFacts ==
    ASSUME Inv, NEW a \in Admins, admin[a].job # NoRow
    PROVE  /\ admin[a].job.id \in Jobs /\ admin[a].job.next_fire_at \in Times
           /\ admin[a].job.next_fire_at # NoTime
           /\ next_fire_at[admin[a].job.id] = admin[a].job.next_fire_at
           /\ next_fire_at[admin[a].job.id] <= admin[a].now
           /\ admin[a].at = "update" => enqueued[admin[a].job.id][admin[a].job.next_fire_at] > 0
           /\ \A b \in Admins \ {a} : admin[b].at = "update" => admin[b].job.id # admin[a].job.id
  <1>1. admin[a].job \in JobRow /\ admin[a].job = admin[a].job
    BY AdminFacts DEF Tick
  <1>2. \A b \in Admins : admin[b].at = "update" => admin[b].job # NoRow
    BY AdminFacts DEF WellFormed
  <1>3. \A b \in Admins \ {a} : admin[b].at = "update" => admin[b].job.id # admin[a].job.id
    BY <1>2, OthersJobs
  <1> QED BY <1>1, <1>3, AdminFacts DEF JobRow, Sound, WellFormed

(* The execution of the job in hand is enqueued, and this becomes known or *)
(* not.                                                                    *)
LEMMA PushAccounted ==
    ASSUME 2 * MaxStall < LockTtl, Inv, Inv', Accounted, NEW a \in Admins, admin[a].at = "enqueue",
           PushItem(admin[a].job), UNCHANGED next_fire_at,
           \A b \in Admins \ {a} : admin'[b] = admin[b],
           \/ /\ admin'[a].at = "update" /\ admin'[a].job = admin[a].job /\ failures' = failures
           \/ admin'[a].at # "update" /\ failures' = failures + 1
    PROVE  Accounted'
  <1>1. PICK j \in Jobs, u \in Times : /\ j = admin[a].job.id /\ u = admin[a].job.next_fire_at
                                       /\ u # NoTime /\ next_fire_at[j] = u
                                       /\ \A b \in Admins : admin[b].at = "update" => admin[b].job.id # j
    <2>1. admin[a].job # NoRow
      BY AdminFacts DEF WellFormed
    <2> QED BY <2>1, InHandFacts
  <1>2. PICK n \in Nat : n = enqueued[j][u]
    BY AdminFacts DEF SharedTypeOK
  <1>3. /\ enqueued \in [Jobs -> [Times -> Nat]]
        /\ enqueued'[j][u] = n + 1
        /\ \A k \in Jobs, t \in Times : k # j \/ t # u => enqueued'[k][t] = enqueued[k][t]
    <2>1. enqueued \in [Jobs -> [Times -> Nat]]
      BY AdminFacts DEF SharedTypeOK
    <2>2. enqueued' = [enqueued EXCEPT ![j][u] = @ + 1]
      BY <1>1 DEF PushItem
    <2> QED BY <1>2, <2>1, <2>2
  <1>4. Past'
    <2> SUFFICES ASSUME NEW k \in Jobs, NEW t \in Times, enqueued'[k][t] > 0
                 PROVE  t # NoTime /\ t <= next_fire_at[k]
      BY DEF Past
    <2>1. CASE k = j /\ t = u
      BY <1>1, <2>1, Numbers
    <2>2. CASE k # j \/ t # u
      BY <1>3, <2>2 DEF Accounted, Past
    <2> QED BY <2>1, <2>2
  <1>5. \A k \in Jobs : k # j /\ Left(k, next_fire_at', enqueued', admin') =>
                          Left(k, next_fire_at, enqueued, admin)
    <2> SUFFICES ASSUME NEW k \in Jobs, k # j, Left(k, next_fire_at', enqueued', admin')
                 PROVE  Left(k, next_fire_at, enqueued, admin)
      OBVIOUS
    <2>1. next_fire_at[k] # NoTime /\ enqueued[k][next_fire_at[k]] > 0
      <3>1. next_fire_at[k] \in Times
        BY AdminFacts DEF SharedTypeOK
      <3> QED BY <1>3, <3>1 DEF Left
    <2> QED BY <2>1 DEF Left
  <1>6. Left(j, next_fire_at, enqueued, admin) <=> n > 0
    BY <1>1, <1>2 DEF Left
  <1>7. \A k \in Jobs, t \in Times, c \in Nat :
           IsPaid(k, t, c, next_fire_at', enqueued', admin') =>
               \/ IsPaid(k, t, c, next_fire_at, enqueued, admin)
               \/ /\ k = j /\ t = u /\ c = n + 2
                  /\ Left(j, next_fire_at', enqueued', admin')
    <2> SUFFICES ASSUME NEW k \in Jobs, NEW t \in Times, NEW c \in Nat,
                        IsPaid(k, t, c, next_fire_at', enqueued', admin')
                 PROVE  \/ IsPaid(k, t, c, next_fire_at, enqueued, admin)
                        \/ /\ k = j /\ t = u /\ c = n + 2
                           /\ Left(j, next_fire_at', enqueued', admin')
      OBVIOUS
    <2>1. CASE k = j /\ t = u
      <3>1. /\ 2 <= c
            /\ c <= n + 1 \/ (c = n + 2 /\ Left(j, next_fire_at', enqueued', admin'))
        BY <1>3, <2>1 DEF IsPaid
      <3>2. CASE c <= n
        BY <1>2, <2>1, <3>1, <3>2 DEF IsPaid
      <3>3. CASE c = n + 1
        <4>1. Left(j, next_fire_at, enqueued, admin)
          BY <1>6, <3>1, <3>3
        <4> QED BY <1>1, <1>2, <2>1, <3>1, <3>3, <4>1 DEF IsPaid
      <3> QED BY <2>1, <3>1, <3>2, <3>3
    <2>2. CASE k # j
      BY <1>3, <1>5, <2>2 DEF IsPaid
    <2>3. CASE k = j /\ t # u
      BY <1>1, <1>3, <2>3 DEF IsPaid
    <2> QED BY <2>1, <2>2, <2>3
  <1>8. CASE admin'[a].at = "update" /\ admin'[a].job = admin[a].job /\ failures' = failures
    <2>1. ~Left(j, next_fire_at', enqueued', admin')
      BY <1>1, <1>8 DEF Left
    <2> QED BY <1>4, <1>7, <1>8, <2>1, NothingNew, Numbers DEF Accounted
  <1>9. CASE failures' = failures + 1
    <2>1. n + 2 \in Nat
      OBVIOUS
    <2>2. \A k \in Jobs, t \in Times, c \in Nat :
             IsPaid(k, t, c, next_fire_at', enqueued', admin') =>
                 \/ IsPaid(k, t, c, next_fire_at, enqueued, admin)
                 \/ k = j /\ t = u /\ c = n + 2
      BY <1>7
    <2>3. IsFiniteSet(Paid') /\ Cardinality(Paid') <= failures'
      BY <1>9, <2>1, <2>2, OneNew, Numbers
    <2> QED BY <1>4, <2>3 DEF Accounted
  <1> QED BY <1>8, <1>9

(* The update of a fire time ends, well or not, and the time was moved on. *)
LEMMA MovedAccounted ==
    ASSUME Inv, Accounted, NEW a \in Admins, admin[a].at = "update",
           SetNextFire(a), UNCHANGED enqueued,
           \A b \in Admins \ {a} : admin'[b] = admin[b],
           failures' \in Nat, failures <= failures'
    PROVE  Accounted'
  <1>1. PICK j \in Jobs : /\ j = admin[a].job.id /\ next_fire_at[j] <= admin[a].now
                          /\ next_fire_at' = [next_fire_at EXCEPT ![j] = admin[a].now + Period]
    <2>1. admin[a].job # NoRow
      BY AdminFacts DEF WellFormed
    <2> QED BY <2>1, InHandFacts DEF SetNextFire, NextFire
  <1>2. /\ next_fire_at \in [Jobs -> Times]
        /\ next_fire_at'[j] = admin[a].now + Period
        /\ \A k \in Jobs : k # j => next_fire_at'[k] = next_fire_at[k]
        /\ admin[a].now + Period \in Times
    BY <1>1, AdminFacts, TimingAssumption DEF SharedTypeOK, Tick, Times
  <1>3. /\ next_fire_at[j] < next_fire_at'[j]
        /\ next_fire_at[j] \in Nat /\ next_fire_at'[j] \in Nat
    BY <1>1, <1>2, Numbers, TimingAssumption
  <1>4. enqueued[j][next_fire_at'[j]] = 0
    <2>1. enqueued[j][next_fire_at'[j]] \in Nat
      BY <1>2, AdminFacts DEF SharedTypeOK
    <2>2. next_fire_at'[j] \in Times /\ ~(next_fire_at'[j] <= next_fire_at[j])
      BY <1>2, <1>3, TimingAssumption DEF Times
    <2>3. ~(enqueued[j][next_fire_at'[j]] > 0)
      BY <2>2 DEF Accounted, Past
    <2> QED BY <2>1, <2>3
  <1>5. Past'
    <2> SUFFICES ASSUME NEW k \in Jobs, NEW t \in Times, enqueued[k][t] > 0
                 PROVE  t # NoTime /\ t <= next_fire_at'[k]
      BY DEF Past
    <2>0. t \in Nat
      BY TimingAssumption DEF Times
    <2>1. t # NoTime /\ t <= next_fire_at[k]
      BY DEF Accounted, Past
    <2>2. CASE k = j
      BY <1>2, <1>3, <2>0, <2>1, <2>2, Numbers
    <2> QED BY <1>2, <2>1, <2>2
  <1>6. ASSUME NEW k \in Jobs, Left(k, next_fire_at', enqueued', admin')
        PROVE  k # j /\ Left(k, next_fire_at, enqueued, admin)
    <2>1. k # j
      BY <1>4, <1>6 DEF Left
    <2>2. admin[a].job.id # k
      BY <1>1, <2>1
    <2> QED BY <1>2, <1>6, <2>1, <2>2 DEF Left
  <1>7. \A k \in Jobs, t \in Times, c \in Nat :
           IsPaid(k, t, c, next_fire_at', enqueued', admin') =>
               IsPaid(k, t, c, next_fire_at, enqueued, admin)
    BY <1>2, <1>6 DEF IsPaid
  <1> QED BY <1>5, <1>7, NothingNew, Numbers DEF Accounted

(* A failure ends the processing of a job whose fire time stays. *)
LEMMA LeftAccounted ==
    ASSUME Inv, Accounted, NEW a \in Admins, failures' = failures + 1,
           UNCHANGED <<next_fire_at, enqueued>>,
           \A b \in Admins \ {a} : admin'[b] = admin[b]
    PROVE  Accounted'
  <1>0. Past'
    BY DEF Accounted, Past
  <1>1. CASE admin[a].at # "update"
    <2>1. \A b \in Admins : admin[b].at = "update" =>
             admin'[b].at = "update" /\ admin'[b].job = admin[b].job
      BY <1>1
    <2> QED BY <2>1, NothingMoved, Numbers
  <1>2. CASE admin[a].at = "update"
    <2>1. PICK j \in Jobs, u \in Times : j = admin[a].job.id /\ u = next_fire_at[j]
      <3>1. admin[a].job # NoRow
        BY <1>2, AdminFacts DEF WellFormed
      <3> QED BY <3>1, InHandFacts
    <2>2. PICK n \in Nat : n = enqueued[j][u] + 1
      BY <2>1, AdminFacts DEF SharedTypeOK
    <2>3. \A k \in Jobs : k # j /\ Left(k, next_fire_at', enqueued', admin') =>
                            Left(k, next_fire_at, enqueued, admin)
      BY <2>1 DEF Left
    <2>4. \A k \in Jobs, t \in Times, c \in Nat :
             IsPaid(k, t, c, next_fire_at', enqueued', admin') =>
                 \/ IsPaid(k, t, c, next_fire_at, enqueued, admin)
                 \/ k = j /\ t = u /\ c = n
      BY <2>1, <2>2, <2>3 DEF IsPaid
    <2>5. IsFiniteSet(Paid') /\ Cardinality(Paid') <= failures'
      BY <2>4, OneNew, Numbers
    <2> QED BY <1>0, <2>5 DEF Accounted
  <1> QED BY <1>1, <1>2

LEMMA FailureAccounted ==
    ASSUME 2 * MaxStall < LockTtl, Inv, Accounted, NEW a \in Admins, FailureStep(a)
    PROVE  Accounted'
  <1>1. /\ failures' = failures + 1
        /\ \A b \in Admins \ {a} : admin'[b] = admin[b]
    BY AdminStep
  <1>2. Inv'
    BY StepInv DEF Next
  <1>3. failures' \in Nat /\ failures <= failures'
    BY <1>1, Numbers
  <1>4. CASE UNCHANGED <<next_fire_at, enqueued>>
    BY <1>1, <1>4, LeftAccounted
  <1>5. CASE EnqueueFails(a) /\ PushItem(admin[a].job)
    <2>1. admin[a].at = "enqueue" /\ UNCHANGED next_fire_at /\ JobDone(a)
      BY <1>5 DEF EnqueueFails, AfterFailure
    <2>2. admin'[a].at # "update"
      BY <2>1, AdminFacts DEF JobDone, Tick
    <2> QED BY <1>1, <1>2, <1>5, <2>1, <2>2, PushAccounted
  <1>6. CASE UpdateFails(a) /\ SetNextFire(a)
    <2>1. admin[a].at = "update" /\ UNCHANGED enqueued
      BY <1>6 DEF UpdateFails
    <2> QED BY <1>1, <1>3, <1>6, <2>1, MovedAccounted
  <1> QED BY <1>4, <1>5, <1>6 DEF FailureStep, ListFails, LockFails, CreateFails, EnqueueFails,
                                  UpdateFails, Crash

LEMMA TickAccounted ==
    ASSUME 2 * MaxStall < LockTtl, Inv, Accounted, NEW a \in Admins, TickStep(a)
    PROVE  Accounted'
  <1>1. \A b \in Admins \ {a} : admin'[b] = admin[b]
    BY AdminStep
  <1>2. failures' = failures
    BY DEF TickStep, StartTick, TakeLock, SkipLocked, CreateOrGet, Enqueue, UpdateNextFire, EndTick
  <1>3. Inv'
    BY StepInv DEF Next
  <1>4. CASE Enqueue(a)
    <2>1. /\ admin[a].at = "enqueue" /\ PushItem(admin[a].job) /\ UNCHANGED next_fire_at
          /\ admin' = [admin EXCEPT ![a].at = "update"]
      BY <1>4 DEF Enqueue
    <2>2. admin'[a].at = "update" /\ admin'[a].job = admin[a].job
      BY <2>1, AdminFacts DEF Tick
    <2> QED BY <1>1, <1>2, <1>3, <2>1, <2>2, PushAccounted
  <1>5. CASE UpdateNextFire(a)
    <2>1. admin[a].at = "update" /\ SetNextFire(a) /\ UNCHANGED enqueued
      BY <1>5 DEF UpdateNextFire
    <2> QED BY <1>1, <1>2, <2>1, MovedAccounted, Numbers
  <1>6. CASE admin[a].at # "update" /\ UNCHANGED <<next_fire_at, enqueued>>
    <2>1. \A b \in Admins : admin[b].at = "update" =>
             admin'[b].at = "update" /\ admin'[b].job = admin[b].job
      BY <1>1, <1>6
    <2> QED BY <1>2, <1>6, <2>1, NothingMoved, Numbers
  <1> QED BY <1>4, <1>5, <1>6 DEF TickStep, StartTick, TakeLock, SkipLocked, CreateOrGet, EndTick

LEMMA CreateAccounted ==
    ASSUME Inv, Accounted, NEW j \in Jobs, NEW u \in Times, CreateJob(j, u)
    PROVE  Accounted'
  <1>1. /\ next_fire_at[j] = NoTime /\ UNCHANGED <<enqueued, admin, failures>>
        /\ \A k \in Jobs : k # j => next_fire_at'[k] = next_fire_at[k]
    BY AdminFacts, Types DEF CreateJob, Inv, SharedTypeOK
  <1>2. \A t \in Times : ~(enqueued[j][t] > 0)
    <2> SUFFICES ASSUME NEW t \in Times, enqueued[j][t] > 0 PROVE FALSE
      OBVIOUS
    <2>1. t # NoTime /\ t <= NoTime
      BY <1>1 DEF Accounted, Past
    <2> QED BY <2>1, TimingAssumption DEF Times, NoTime
  <1>3. Past'
    BY <1>1, <1>2 DEF Accounted, Past
  <1>4. next_fire_at'[j] \in Times
    BY Types DEF CreateJob, Inv, SharedTypeOK
  <1>5. ASSUME NEW k \in Jobs, Left(k, next_fire_at', enqueued', admin')
        PROVE  k # j /\ Left(k, next_fire_at, enqueued, admin)
    BY <1>1, <1>2, <1>4, <1>5 DEF Left
  <1>6. \A k \in Jobs, t \in Times, c \in Nat :
           IsPaid(k, t, c, next_fire_at', enqueued', admin') =>
               IsPaid(k, t, c, next_fire_at, enqueued, admin)
    BY <1>1, <1>5 DEF IsPaid
  <1> QED BY <1>1, <1>3, <1>6, NothingNew, Numbers DEF Accounted

LEMMA StepAccounted ==
    ASSUME 2 * MaxStall < LockTtl, Inv, Accounted, [Next]_vars
    PROVE  Accounted'
  <1>1. CASE PassTime \/ UNCHANGED vars
    <2>1. UNCHANGED <<next_fire_at, enqueued, admin, failures>>
      BY <1>1 DEF PassTime, vars
    <2> QED BY <2>1, NothingMoved, Numbers
  <1> QED BY <1>1, TickAccounted, FailureAccounted, CreateAccounted DEF Next

LEMMA RepeatsPaid ==
    ASSUME Inv, Accounted
    PROVE  RepeatsNeedFailures
  <1> DEFINE repeats == UNION {{k} \X Repeats(k) : k \in Jobs}
  <1>1. repeats \subseteq Paid
    <2> SUFFICES ASSUME NEW k \in Jobs, NEW p \in {k} \X Repeats(k)
                 PROVE  p \in Paid
      OBVIOUS
    <2>1. p = <<k, p[2]>> /\ p[2] \in Repeats(k)
      OBVIOUS
    <2>2. /\ p[2] \in Times \X (2 .. MaxFailures + 2)
          /\ p[2][2] <= enqueued[k][p[2][1]]
      BY <2>1 DEF Repeats
    <2>3. p[2][1] \in Times /\ p[2][2] \in Nat /\ 2 <= p[2][2] /\ p[2] = <<p[2][1], p[2][2]>>
      BY <2>2, TimingAssumption
    <2>4. p \in Jobs \X (Times \X Nat)
      BY <2>1, <2>3
    <2> QED BY <2>1, <2>2, <2>3, <2>4 DEF Paid, IsPaid
  <1>2. IsFiniteSet(repeats) /\ Cardinality(repeats) <= Cardinality(Paid)
    BY <1>1, FS_Subset DEF Accounted
  <1>3. Cardinality(repeats) \in Nat /\ Cardinality(Paid) \in Nat
    BY <1>2, FS_CardinalityType DEF Accounted
  <1>4. Cardinality(repeats) <= failures
    <2> HIDE DEF repeats
    <2> QED BY <1>2, <1>3, Numbers DEF Accounted
  <1> QED BY <1>4 DEF RepeatsNeedFailures

-----------------------------------------------------------------------------
(* The types need no assumption about time: they are inductive alone. *)

(* What a step of an admin makes of the clock, the jobs and the queues. *)
LEMMA SharedTypes ==
    ASSUME SharedTypeOK, NEW a \in Admins, WellFormed(admin[a]), TickStep(a) \/ FailureStep(a)
    PROVE  SharedTypeOK'
  <1> USE TimingAssumption
  <1> DEFINE old == admin[a]
  <1>1. /\ old \in Tick /\ old.now \in 0 .. MaxTime /\ clock \in Nat
        /\ \A d \in old.due : d.id \in Jobs
        /\ clock + LockTtl \in Nat /\ old.now + Period \in Times
    BY DEF WellFormed, SharedTypeOK, Tick, JobRow, Times
  <1>2. CASE \/ StartTick(a) \/ EndTick(a) \/ ListFails(a) \/ Crash(a)
             \/ \E d \in old.due : SkipLocked(a, d) \/ TakeLock(a, d) \/ LockFails(a, d)
    <2>1. UNCHANGED <<clock, next_fire_at, executions, enqueued>>
      BY <1>2 DEF StartTick, EndTick, ListFails, Crash, SkipLocked, TakeLock, LockFails
    <2>2. failures' \in 0 .. MaxFailures
      <3>1. UNCHANGED failures \/ CountFailure
        BY <1>2 DEF StartTick, EndTick, ListFails, Crash, SkipLocked, TakeLock, LockFails
      <3> QED BY <3>1 DEF CountFailure, SharedTypeOK
    <2>3. lock' = lock \/ \E d \in old.due : SetLock(a, d.id)
      BY <1>2 DEF StartTick, EndTick, ListFails, Crash, SkipLocked, TakeLock, LockFails
    <2>4. lock' \in [Jobs -> Nat]
      <3>1. lock \in [Jobs -> Nat]
        BY DEF SharedTypeOK
      <3> HIDE DEF old
      <3> QED BY <1>1, <2>3, <3>1 DEF SetLock, Lapse
    <2> QED BY <2>1, <2>2, <2>4 DEF SharedTypeOK
  <1>3. CASE \/ CreateOrGet(a) \/ Enqueue(a) \/ UpdateNextFire(a)
             \/ CreateFails(a) \/ EnqueueFails(a) \/ UpdateFails(a)
    <2>1. old.at \in {"create", "enqueue", "update"}
      BY <1>3 DEF CreateOrGet, Enqueue, UpdateNextFire, CreateFails, EnqueueFails, UpdateFails
    <2>2. PICK j \in Jobs, t \in Times : j = old.job.id /\ t = old.job.next_fire_at /\ t # NoTime
      BY <1>1, <2>1 DEF WellFormed, Tick, JobRow
    <2>3. UNCHANGED <<clock, lock>> /\ failures' \in 0 .. MaxFailures
      BY <1>3 DEF CreateOrGet, Enqueue, UpdateNextFire, CreateFails, EnqueueFails, UpdateFails,
                  CountFailure, SharedTypeOK
    <2>4. JobEffect(a, j, t)
      BY <1>3, <2>2 DEF CreateOrGet, Enqueue, UpdateNextFire, CreateFails, EnqueueFails,
                  UpdateFails, AddExecution, PushItem, SetNextFire, NextFire, JobEffect
    <2>5. enqueued' \in [Jobs -> [Times -> Nat]]
      <3>1. PICK f \in [Jobs -> [Times -> Nat]] : f = enqueued
        BY DEF SharedTypeOK
      <3>2. [f EXCEPT ![j][t] = @ + 1] \in [Jobs -> [Times -> Nat]]
        BY Counted
      <3> QED BY <2>4, <3>1, <3>2 DEF JobEffect
    <2>6. executions' \subseteq Jobs \X (Times \ {NoTime})
      BY <2>2, <2>4 DEF JobEffect, SharedTypeOK
    <2>7. next_fire_at' \in [Jobs -> Times]
      <3>1. /\ next_fire_at \in [Jobs -> Times]
            /\ next_fire_at' = next_fire_at \/ next_fire_at' = [next_fire_at EXCEPT ![j] = old.now + Period]
        BY <2>4 DEF JobEffect, SharedTypeOK
      <3> HIDE DEF old
      <3> QED BY <1>1, <3>1
    <2> QED BY <2>3, <2>5, <2>6, <2>7 DEF SharedTypeOK
  <1> QED BY <1>2, <1>3 DEF TickStep, FailureStep

(* What it makes of its tick. *)
LEMMA OwnTypes ==
    ASSUME SharedTypeOK, NEW a \in Admins, WellFormed(admin[a]), TickStep(a) \/ FailureStep(a)
    PROVE  \E r : WellFormed(r) /\ admin' = [admin EXCEPT ![a] = r]
  <1> USE TimingAssumption, NotARow
  <1> DEFINE old == admin[a]
  <1>1. old \in Tick /\ WellFormed(old) /\ clock \in 0 .. MaxTime
    BY DEF WellFormed, SharedTypeOK
  <1>2. CASE StartTick(a)
    <2> DEFINE r == [at |-> "next", now |-> clock, due |-> DueRows(clock), job |-> NoRow]
    <2>1. \A d \in DueRows(clock) : d \in JobRow /\ d.next_fire_at <= clock
      BY DEF DueRows, IsDue, JobRow, SharedTypeOK, NoTime
    <2>2. r \in Tick /\ r.at = "next" /\ r.now = clock /\ r.due = DueRows(clock) /\ r.job = NoRow
      BY <1>1, <2>1 DEF Tick
    <2>3. admin' = [admin EXCEPT ![a] = r]
      BY <1>2 DEF StartTick
    <2> HIDE DEF r
    <2>4. WellFormed(r)
      BY <1>1, <2>1, <2>2 DEF WellFormed
    <2> QED BY <2>3, <2>4
  <1>3. ASSUME NEW now \in 0 .. MaxTime, NEW r, admin' = [admin EXCEPT ![a] = r],
               r \in Tick, r.at = "idle", r.now = now, r.due = {}, r.job = NoRow
        PROVE  \E q : WellFormed(q) /\ admin' = [admin EXCEPT ![a] = q]
    <2>1. WellFormed(r)
      BY <1>3 DEF WellFormed
    <2> QED BY <1>3, <2>1
  <1>4. CASE EndTick(a)
    <2> DEFINE r == [old EXCEPT !.at = "idle"]
    <2>1. /\ r \in Tick /\ r.at = "idle" /\ r.now = old.now /\ r.due = {} /\ r.job = NoRow
          /\ old.now \in 0 .. MaxTime
      BY <1>1, <1>4 DEF EndTick, WellFormed, Tick
    <2>2. admin' = [admin EXCEPT ![a] = r]
      BY <1>4 DEF EndTick
    <2> HIDE DEF r, old
    <2> QED BY <1>3, <2>1, <2>2
  <1>5. CASE ListFails(a)
    <2> DEFINE r == [old EXCEPT !.now = clock]
    <2>1. r \in Tick /\ r.at = "idle" /\ r.now = clock /\ r.due = {} /\ r.job = NoRow
      BY <1>1, <1>5 DEF ListFails, WellFormed, Tick
    <2>2. admin' = [admin EXCEPT ![a] = r]
      BY <1>5 DEF ListFails
    <2> HIDE DEF r, old
    <2> QED BY <1>1, <1>3, <2>1, <2>2
  <1>6. CASE Crash(a)
    <2> DEFINE r == IdleAdmin(old.now)
    <2>1. /\ r \in Tick /\ r.at = "idle" /\ r.now = old.now /\ r.due = {} /\ r.job = NoRow
          /\ old.now \in 0 .. MaxTime
      BY <1>1 DEF Tick, IdleAdmin
    <2>2. admin' = [admin EXCEPT ![a] = r]
      BY <1>6 DEF Crash
    <2> HIDE DEF r, old
    <2> QED BY <1>3, <2>1, <2>2
  <1>7. ASSUME NEW r, admin' = [admin EXCEPT ![a] = r],
               r \in Tick, r.now = old.now, r.due \subseteq old.due,
               \/ r.at = old.at /\ r.job = old.job
               \/ r.at = "next" /\ r.job = NoRow
               \/ r.at \notin {"idle", "next"} /\ r.job \in old.due \cup {old.job} /\ r.job # NoRow,
               old.at # "idle"
        PROVE  \E q : WellFormed(q) /\ admin' = [admin EXCEPT ![a] = q]
    <2>1. WellFormed(r)
      <3> HIDE DEF old
      <3>1. old.now \in Nat
        BY <1>1 DEF Tick
      <3>2. \A d \in r.due \cup {r.job} : d.next_fire_at <= r.now
        BY <1>1, <1>7, <3>1 DEF WellFormed
      <3> QED BY <1>1, <1>7, <3>2 DEF WellFormed
    <2> QED BY <1>7, <2>1
  <1>8. ASSUME NEW d \in old.due, SkipLocked(a, d) \/ LockFails(a, d)
        PROVE  \E q : WellFormed(q) /\ admin' = [admin EXCEPT ![a] = q]
    <2> DEFINE r == [old EXCEPT !.due = old.due \ {d}]
    <2>1. /\ r \in Tick /\ r.at = old.at /\ r.now = old.now /\ r.due \subseteq old.due
          /\ r.job = old.job /\ old.at # "idle"
      BY <1>1, <1>8 DEF Tick, SkipLocked, LockFails
    <2>2. admin' = [admin EXCEPT ![a] = r]
      BY <1>8 DEF SkipLocked, LockFails
    <2> HIDE DEF r, old
    <2> QED BY <1>7, <2>1, <2>2
  <1>9. ASSUME NEW d \in old.due, TakeLock(a, d)
        PROVE  \E q : WellFormed(q) /\ admin' = [admin EXCEPT ![a] = q]
    <2> DEFINE r == [old EXCEPT !.at = "create", !.due = old.due \ {d}, !.job = d]
    <2>1. /\ d \in JobRow /\ d # NoRow
          /\ r \in Tick /\ r.at = "create" /\ r.now = old.now /\ r.due \subseteq old.due
          /\ r.job = d /\ old.at # "idle"
      BY <1>1, <1>9 DEF Tick, TakeLock
    <2>2. admin' = [admin EXCEPT ![a] = r]
      BY <1>9 DEF TakeLock
    <2> HIDE DEF r, old
    <2> QED BY <1>7, <2>1, <2>2
  <1>10. CASE UpdateNextFire(a) \/ CreateFails(a) \/ EnqueueFails(a) \/ UpdateFails(a)
    <2> DEFINE r == [old EXCEPT !.at = "next", !.job = NoRow]
    <2>1. /\ r \in Tick /\ r.now = old.now /\ r.due \subseteq old.due
          /\ r.at = "next" /\ r.job = NoRow /\ old.at # "idle"
      BY <1>1, <1>10 DEF Tick, UpdateNextFire, CreateFails, EnqueueFails, UpdateFails
    <2>2. admin' = [admin EXCEPT ![a] = r]
      BY <1>10 DEF UpdateNextFire, CreateFails, EnqueueFails, UpdateFails, AfterFailure, JobDone
    <2> HIDE DEF r, old
    <2> QED BY <1>7, <2>1, <2>2
  <1>11. CASE CreateOrGet(a) \/ Enqueue(a)
    <2> PICK at \in {"enqueue", "update"} :
          admin' = [admin EXCEPT ![a] = [old EXCEPT !.at = at]] /\ old.at \in {"create", "enqueue"}
      BY <1>11 DEF CreateOrGet, Enqueue
    <2> DEFINE r == [old EXCEPT !.at = at]
    <2>1. /\ r \in Tick /\ r.now = old.now /\ r.due \subseteq old.due
          /\ r.at \notin {"idle", "next"} /\ r.job = old.job /\ r.job # NoRow /\ old.at # "idle"
      BY <1>1 DEF Tick, WellFormed
    <2> HIDE DEF r, old
    <2> QED BY <1>7, <2>1 DEF r
  <1> QED BY <1>2, <1>4, <1>5, <1>6, <1>8, <1>9, <1>10, <1>11 DEF TickStep, FailureStep

(* Every state of the scheduler loops has its type, and no snapshot is of  *)
(* a time after its tick began: however long ticks and locks last.         *)
THEOREM TicksTyped == Spec => []TypeOK
  <1>1. Init => TypeOK
    BY InitInv DEF Inv
  <1>2. TypeOK /\ [Next]_vars => TypeOK'
    <2> SUFFICES ASSUME TypeOK, [Next]_vars PROVE TypeOK'
      OBVIOUS
    <2>1. /\ SharedTypeOK /\ admin \in [Admins -> Tick]
          /\ \A b \in Admins : WellFormed(admin[b])
      BY Types
    <2>2. ASSUME NEW a \in Admins, TickStep(a) \/ FailureStep(a)
          PROVE  TypeOK'
      <3>1. SharedTypeOK'
        BY <2>1, <2>2, SharedTypes
      <3>2. PICK r : WellFormed(r) /\ admin' = [admin EXCEPT ![a] = r]
        BY <2>1, <2>2, OwnTypes
      <3>3. r \in Tick
        BY <3>2 DEF WellFormed
      <3>4. /\ admin' \in [Admins -> Tick]
            /\ \A b \in Admins : WellFormed(admin'[b])
        BY <2>1, <3>2, <3>3
      <3> QED BY <3>1, <3>4 DEF TypeOK, SharedTypeOK, WellFormed
    <2>3. ASSUME NEW j \in Jobs, NEW t \in Times, CreateJob(j, t)
          PROVE  TypeOK'
      BY <2>3 DEF TypeOK, CreateJob
    <2>4. CASE PassTime
      BY <2>4, TimingAssumption DEF TypeOK, PassTime
    <2>5. CASE UNCHANGED vars
      BY <2>5 DEF TypeOK, vars
    <2> QED BY <2>2, <2>3, <2>4, <2>5 DEF Next
  <1> QED BY <1>1, <1>2, PTL DEF Spec

-----------------------------------------------------------------------------
THEOREM Invariance == ASSUME 2 * MaxStall < LockTtl PROVE Spec => []Inv
  <1>1. Inv /\ [Next]_vars => Inv'
    BY StepInv
  <1> QED BY InitInv, <1>1, PTL DEF Spec

(* While ticks last less than half a lock, no two of any number of admins  *)
(* process one job together, whatever calls fail and processes die.        *)
THEOREM LocksExclude == ASSUME 2 * MaxStall < LockTtl PROVE Spec => []OneProcessor
  <1>1. Inv => OneProcessor
    BY DEF Inv
  <1> QED BY Invariance, <1>1, PTL

(* An execution created but not enqueued keeps its job due at its time,    *)
(* after any failures.                                                     *)
THEOREM RowsKept == ASSUME 2 * MaxStall < LockTtl PROVE Spec => []RowsNotForgotten
  <1>1. Inv => RowsNotForgotten
    BY DEF Inv
  <1> QED BY Invariance, <1>1, PTL

(* Fire times only move on, and over none that has not been enqueued. *)
THEOREM NoFireTimeSkipped == ASSUME 2 * MaxStall < LockTtl PROVE Spec => FireTimesServed
  <1> DEFINE Served(j) ==
        next_fire_at[j] # NoTime /\ next_fire_at'[j] # next_fire_at[j] =>
            /\ enqueued[j][next_fire_at[j]] > 0
            /\ next_fire_at[j] < next_fire_at'[j]
  <1>1. Inv /\ [Next]_vars => [\A j \in Jobs : Served(j)]_vars
    BY FireTimesMoveOn
  <1>2. Spec => [][\A j \in Jobs : Served(j)]_vars
    BY Invariance, <1>1, PTL DEF Spec
  <1> QED BY <1>2 DEF FireTimesServed

(* Every job is served in time: unless calls fail or processes die, within *)
(* Late of its fire time, for any number of jobs and of admins, if there   *)
(* is one; a lock that a success leaves must lapse before the next fire    *)
(* time, and one that a failure leaves holds its job up once.              *)
THEOREM ServedInTime ==
    ASSUME 2 * MaxStall < LockTtl, LockTtl + MaxStall <= Period, Admins # {}
    PROVE  Spec => []OverdueBounded
  <1>1. Inv /\ Pace /\ Timely /\ [Next]_vars => Pace' /\ Timely'
    BY PaceStep, TimelyStep
  <1>2. Inv /\ Pace /\ Timely => OverdueBounded
    BY OnTime
  <1> QED BY InitTimely, Invariance, <1>1, <1>2, PTL DEF Spec

(* No execution is enqueued a second time but after a failure, and never   *)
(* two of them after one: for any number of admins, jobs and failures.     *)
THEOREM RepeatsAccounted == ASSUME 2 * MaxStall < LockTtl PROVE Spec => []RepeatsNeedFailures
  <1>1. Inv /\ Accounted /\ [Next]_vars => Accounted'
    BY StepAccounted
  <1>2. Inv /\ Accounted => RepeatsNeedFailures
    BY RepeatsPaid
  <1> QED BY InitAccounted, Invariance, <1>1, <1>2, PTL DEF Spec
===============================================================================
