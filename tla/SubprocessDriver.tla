-------------------------- MODULE SubprocessDriver --------------------------
(***************************************************************************)
(* One invocation of the backhopper binary by the driver's subprocess      *)
(* backend (crates/backhopper-driver/src/subprocess.rs): the calling       *)
(* thread, the two reader threads it starts, the child, a process the      *)
(* child may leave behind, and whoever trips the cancellation token.  They *)
(* share three pipes.  Bytes are counted, not looked at, and of an output  *)
(* that never ends they are counted up to Many.                            *)
(***************************************************************************)
EXTENDS Integers, TLAPS

CONSTANTS
    None,       \* no cap
    Payloads,   \* sizes of standard input to be written, or Streamed
    Streamed,   \* standard input copied from a reader of the caller's
    Caps,       \* output policies: None buffers, 0 discards, n buffers up to n
    PipeCap,    \* what a pipe holds
    Many,       \* stands for itself and every larger count of output
    Timeout,    \* after how many ticks an invocation times out
    Failing,    \* channels whose reads may meet an error of the pipe
    Forks       \* may the child leave a process behind

Channels == {"stdout", "stderr"}

ASSUME DriverAssumption ==
    /\ Payloads \subseteq Nat \cup {Streamed} /\ Streamed \notin Nat
    /\ Caps \subseteq {n \in Nat : n < Many} \cup {None} /\ None \notin Nat
    /\ PipeCap \in Nat \ {0} /\ Many \in Nat /\ Timeout \in Nat
    /\ Forks \in BOOLEAN

Counted(n) == IF n < Many THEN n ELSE Many

VARIABLES
    pc, result,      \* the calling thread, and what it returns
    cap,             \* the output policy of each channel
    payload, stdin,  \* input still to be written, input in the pipe
    reader, buf,     \* the reader threads, and how much they kept
    pipe,            \* output in the pipes
    child, want,     \* the child, and the call it is making
    written,         \* how much it has written
    heir,            \* a process it started, which holds its pipes too
    reaped,          \* has the child been waited for
    now, cancelled   \* ticks since the start; the cancellation token

caller == <<pc, result, payload, reaped>>
readers == <<reader, buf>>
childVars == <<child, want, written, heir>>
env == <<now, cancelled, cap>>
vars == <<caller, readers, childVars, env, stdin, pipe>>

PCs == {"spawned", "writing", "policy", "trywait", "joinOut", "joinErr",
        "judge", "drop", "done"}

Results == {"none", "ok", "spawn", "timeout", "cancelled", "tooLarge"}

TypeOK ==
    /\ pc \in PCs /\ result \in Results
    /\ cap \in [Channels -> Caps]
    /\ payload \in Nat \cup {Streamed} /\ stdin \in 0..PipeCap
    /\ reader \in [Channels -> {"reading", "eof", "overflow", "failed"}]
    /\ buf \in [Channels -> 0..Many]
    /\ \A ch \in Channels : cap[ch] # None => buf[ch] <= cap[ch]
    /\ pipe \in [Channels -> 0..PipeCap]
    /\ child \in {"running", "hung", "exited", "killed"}
    /\ want \in Channels \cup {"nothing", "stdin", "eof"}
    /\ written \in [Channels -> 0..Many]
    /\ heir \in {"none", "alive", "gone"} /\ reaped \in BOOLEAN /\ cancelled \in BOOLEAN
    /\ now \in 0..Timeout

Init ==
    /\ pc = "spawned" /\ result = "none"
    /\ cap \in [Channels -> Caps]
    /\ payload \in Payloads /\ stdin = 0
    /\ reader = [ch \in Channels |-> "reading"]
    /\ buf = [ch \in Channels |-> 0] /\ pipe = [ch \in Channels |-> 0]
    /\ child = "running" /\ want = "nothing"
    /\ written = [ch \in Channels |-> 0] /\ heir = "none"
    /\ reaped = FALSE /\ now = 0 /\ cancelled = FALSE

Alive == child \in {"running", "hung"}

\* The pipes have an end outside the driver.
Held == Alive \/ heir = "alive"

-----------------------------------------------------------------------------
(* The calling thread: run_invocation.                                     *)

\* Mutation: the readers are started after standard input has been written.
ReadersStartedLate == pc \notin {"spawned", "writing"}

ReadersStarted == pc # "spawned"

StartReaders ==
    /\ pc = "spawned"
    /\ pc' = "writing"
    /\ UNCHANGED <<result, payload, reaped, readers, childVars, env, stdin, pipe>>

WriteStdin ==
    /\ pc = "writing" /\ payload # 0 /\ Held /\ stdin < PipeCap
    /\ payload' = IF payload = Streamed THEN Streamed ELSE payload - 1
    /\ stdin' = stdin + 1
    /\ UNCHANGED <<pc, result, reaped, readers, childVars, env, pipe>>

\* Nobody is left to read it: a broken pipe, reported as a failure to spawn.
StdinBroken ==
    /\ pc = "writing" /\ payload # 0 /\ ~Held
    /\ pc' = "drop" /\ result' = "spawn"
    /\ UNCHANGED <<payload, reaped, readers, childVars, env, stdin, pipe>>

SourceEnds ==
    /\ pc = "writing" /\ payload = Streamed
    /\ payload' = 0
    /\ UNCHANGED <<pc, result, reaped, readers, childVars, env, stdin, pipe>>

SourceFails ==
    /\ pc = "writing" /\ payload = Streamed
    /\ pc' = "drop" /\ result' = "spawn"
    /\ UNCHANGED <<payload, reaped, readers, childVars, env, stdin, pipe>>

WriteBytes == payload # Streamed /\ (WriteStdin \/ StdinBroken)

\* Between what it copies the caller waits for its own reader.
CopyReader ==
    payload = Streamed /\ (WriteStdin \/ StdinBroken \/ SourceEnds \/ SourceFails)

\* All of it is written; dropping the handle is the child's end of file.
CloseStdin ==
    /\ pc = "writing" /\ payload = 0
    /\ pc' = "policy"
    /\ UNCHANGED <<result, payload, reaped, readers, childVars, env, stdin, pipe>>

\* Mutation: the wait loop forgets the timeout.
CheckCancellationOnly ==
    /\ pc = "policy"
    /\ IF cancelled
       THEN pc' = "drop" /\ result' = "cancelled"
       ELSE pc' = "trywait" /\ UNCHANGED result
    /\ UNCHANGED <<payload, reaped, readers, childVars, env, stdin, pipe>>

\* One turn of the wait loop: the token, the timeout, then the child.
CheckPolicy ==
    /\ pc = "policy"
    /\ IF cancelled \/ now >= Timeout
       THEN pc' = "drop" /\ result' = IF cancelled THEN "cancelled" ELSE "timeout"
       ELSE pc' = "trywait" /\ UNCHANGED result
    /\ UNCHANGED <<payload, reaped, readers, childVars, env, stdin, pipe>>

TryWait ==
    /\ pc = "trywait"
    /\ reaped' = ~Alive
    /\ pc' = IF Alive THEN "policy" ELSE "joinOut"
    /\ UNCHANGED <<result, payload, readers, childVars, env, stdin, pipe>>

\* try_wait itself fails: reported as a failure to spawn.
TryWaitFails ==
    /\ pc = "trywait"
    /\ pc' = "drop" /\ result' = "spawn"
    /\ UNCHANGED <<payload, reaped, readers, childVars, env, stdin, pipe>>

JoinNext(ch) == IF ch = "stdout" THEN "joinErr" ELSE "judge"
Joining(ch) == pc = IF ch = "stdout" THEN "joinOut" ELSE "joinErr"

\* Mutation: the buffers are taken without waiting for the readers.
TakeBuffer(ch) ==
    /\ Joining(ch)
    /\ pc' = JoinNext(ch)
    /\ UNCHANGED <<result, payload, reaped, readers, childVars, env, stdin, pipe>>

Join(ch) ==
    /\ Joining(ch) /\ reader[ch] # "reading"
    /\ pc' = JoinNext(ch)
    /\ UNCHANGED <<result, payload, reaped, readers, childVars, env, stdin, pipe>>

Judge ==
    /\ pc = "judge"
    /\ IF \E ch \in Channels : reader[ch] = "overflow"
       THEN pc' = "drop" /\ result' = "tooLarge"
       ELSE pc' = "done" /\ result' = "ok"
    /\ UNCHANGED <<payload, reaped, readers, childVars, env, stdin, pipe>>

\* Mutation: the guard is disarmed too early, or has no Drop.
DropUnarmed ==
    /\ pc = "drop"
    /\ pc' = "done"
    /\ UNCHANGED <<result, payload, reaped, readers, childVars, env, stdin, pipe>>

\* kill_now and the guard's Drop: every early return kills and waits.
DropGuard ==
    /\ pc = "drop"
    /\ pc' = "done" /\ reaped' = TRUE
    /\ child' = IF Alive THEN "killed" ELSE child
    /\ want' = "nothing"
    /\ UNCHANGED <<result, payload, readers, written, heir, env, stdin, pipe>>

Caller == \/ StartReaders \/ WriteBytes \/ CloseStdin
          \/ CheckPolicy \/ TryWait \/ Judge \/ DropGuard
          \/ \E ch \in Channels : Join(ch)

-----------------------------------------------------------------------------
(* The reader threads: spawn_reader.                                       *)

\* Mutations: output that just fits counts as too large; each read is judged
\* on its own.
OverflowsAtCap(ch, n) == cap[ch] \notin {None, 0} /\ buf[ch] + n >= cap[ch]
OverflowsPerRead(ch, n) == cap[ch] \notin {None, 0} /\ n > cap[ch]

Overflows(ch, n) == cap[ch] \notin {None, 0} /\ buf[ch] + n > cap[ch]

Kept(ch, n) == IF cap[ch] = 0 THEN 0 ELSE n

\* On overflow the thread ends, and with it the pipe.
Read(ch) ==
    /\ ReadersStarted /\ reader[ch] = "reading"
    /\ \E n \in 1..pipe[ch] :
         IF Overflows(ch, n)
         THEN /\ reader' = [reader EXCEPT ![ch] = "overflow"]
              /\ pipe' = [pipe EXCEPT ![ch] = 0]
              /\ UNCHANGED buf
         ELSE /\ buf' = [buf EXCEPT ![ch] = Counted(@ + Kept(ch, n))]
              /\ pipe' = [pipe EXCEPT ![ch] = @ - n]
              /\ UNCHANGED reader
    /\ UNCHANGED <<caller, childVars, env, stdin>>

ReadEof(ch) ==
    /\ ReadersStarted /\ reader[ch] = "reading" /\ pipe[ch] = 0
    /\ ~Held
    /\ reader' = [reader EXCEPT ![ch] = "eof"]
    /\ UNCHANGED <<caller, buf, childVars, env, stdin, pipe>>

\* Any error but an interruption ends the thread with what it has kept, and
\* with it the pipe; nobody is told.
ReadFails(ch) ==
    /\ ch \in Failing /\ ReadersStarted /\ reader[ch] = "reading"
    /\ reader' = [reader EXCEPT ![ch] = "failed"]
    /\ pipe' = [pipe EXCEPT ![ch] = 0]
    /\ UNCHANGED <<caller, buf, childVars, env, stdin>>

Reader(ch) == Read(ch) \/ ReadEof(ch)

-----------------------------------------------------------------------------
(* The child, which writes, reads, exits, hangs and forks as it likes, and  *)
(* the rest of the world.                                                  *)

\* After the end of its input it reads no more.
ChildCalls ==
    /\ child = "running" /\ want \in {"nothing", "eof"}
    /\ want' \in IF want = "eof" THEN Channels ELSE Channels \cup {"stdin"}
    /\ UNCHANGED <<caller, readers, child, written, heir, env, stdin, pipe>>

ChildReads ==
    /\ child = "running" /\ want = "stdin" /\ stdin > 0
    /\ stdin' = stdin - 1 /\ want' = "nothing"
    /\ UNCHANGED <<caller, readers, child, written, heir, env, pipe>>

ChildReadsEof ==
    /\ child = "running" /\ want = "stdin" /\ stdin = 0
    /\ pc \notin {"spawned", "writing"}
    /\ want' = "eof"
    /\ UNCHANGED <<caller, readers, child, written, heir, env, stdin, pipe>>

ChildWrites(ch) ==
    /\ child = "running" /\ want = ch
    /\ reader[ch] = "reading" /\ pipe[ch] < PipeCap
    /\ pipe' = [pipe EXCEPT ![ch] = @ + 1]
    /\ written' = [written EXCEPT ![ch] = Counted(@ + 1)]
    /\ want' = "nothing"
    /\ UNCHANGED <<caller, readers, child, heir, env, stdin>>

\* The reader is gone: the child fails on the broken pipe.
ChildPipeBroken(ch) ==
    /\ child = "running" /\ want = ch /\ reader[ch] # "reading"
    /\ child' = "exited" /\ want' = "nothing"
    /\ UNCHANGED <<caller, readers, written, heir, env, stdin, pipe>>

ChildExits ==
    /\ child = "running" /\ want \in {"nothing", "eof"}
    /\ child' = "exited" /\ want' = "nothing"
    /\ UNCHANGED <<caller, readers, written, heir, env, stdin, pipe>>

ChildHangs ==
    /\ child = "running"
    /\ child' = "hung" /\ want' = "nothing"
    /\ UNCHANGED <<caller, readers, written, heir, env, stdin, pipe>>

ChildForks ==
    /\ Forks /\ child = "running" /\ heir = "none"
    /\ heir' = "alive"
    /\ UNCHANGED <<caller, readers, child, want, written, env, stdin, pipe>>

HeirExits ==
    /\ heir = "alive"
    /\ heir' = "gone"
    /\ UNCHANGED <<caller, readers, child, want, written, env, stdin, pipe>>

Child == \/ ChildCalls \/ ChildReads \/ ChildReadsEof
         \/ ChildExits
         \/ \E ch \in Channels : ChildWrites(ch) \/ ChildPipeBroken(ch)

\* Aborter::abort, from another thread.
Abort ==
    /\ ~cancelled
    /\ cancelled' = TRUE
    /\ UNCHANGED <<caller, readers, childVars, now, cap, stdin, pipe>>

Tick ==
    /\ now < Timeout
    /\ now' = now + 1
    /\ UNCHANGED <<caller, readers, childVars, cancelled, cap, stdin, pipe>>

Next == \/ Caller \/ CopyReader \/ TryWaitFails
        \/ Child \/ ChildHangs \/ ChildForks \/ HeirExits
        \/ Abort \/ Tick
        \/ \E ch \in Channels : Reader(ch) \/ ReadFails(ch)

\* Threads that can run are scheduled and time passes; a child that is
\* neither blocked on a pipe nor hung goes on, for ever if it likes.  The
\* reader that standard input is copied from may stall or never end.
Fairness == /\ WF_vars(Caller) /\ WF_vars(Child) /\ WF_vars(Tick)
            /\ \A ch \in Channels : WF_vars(Reader(ch))

Spec == Init /\ [][Next]_vars /\ Fairness

-----------------------------------------------------------------------------
(* Properties.                                                             *)

\* "On caller panic or early return between spawn and wait, the child is
\* killed" (subprocess.rs): whatever invoke returns, no child is left running
\* and none is left a zombie.
NoChildOutlivesItsInvocation == pc = "done" => ~Alive /\ reaped

\* An outcome holds everything the child wrote, unless the policy discards it;
\* what a cap cut off is never taken for the whole, and no outcome is reported
\* for a child the driver killed.  One exception: a reader thread that met an
\* error of the pipe passes on what it had read by then, as if that were all.
OutcomesAreComplete ==
    result = "ok" =>
        /\ child = "exited"
        /\ \A ch \in Channels : cap[ch] # 0 =>
               /\ buf[ch] <= written[ch]
               /\ reader[ch] # "failed" => buf[ch] = written[ch]

\* OutputTooLarge is reported only when a cap was exceeded, a timeout only
\* when the time is up, a cancellation only when the token was tripped.
ErrorsHaveTheirCause ==
    /\ result = "tooLarge" =>
           \E ch \in Channels : cap[ch] \notin {None, 0} /\ written[ch] > cap[ch]
    /\ result = "timeout" => now >= Timeout
    /\ result = "cancelled" => cancelled

\* An invocation with a timeout returns, whatever the child does with its
\* pipes and its time, but for three cases: the caller writes standard input
\* that does not fit the pipe and that a child or an heir leaves unread, though
\* the child is not kept from it by output that nobody drains; it waits for the
\* reader it copies standard input from; or it waits for the readers while an
\* heir keeps the output pipes of an exited child open.
OnlyKnownWaysToBlock ==
    \/ <>(pc = "done")
    \/ /\ <>[](pc = "writing" /\ stdin = PipeCap /\ Held)
       /\ []<>(child # "running" \/ want \notin Channels)
    \/ <>[](pc = "writing" /\ payload = Streamed)
    \/ <>[](pc \in {"joinOut", "joinErr"} /\ ~Alive /\ heir = "alive")

\* "Timeout: same termination path" (subprocess.rs): an invocation with a
\* timeout returns.
TimeoutsEndInvocations == <>(pc = "done")

-----------------------------------------------------------------------------
(* Proofs: what holds of an invocation for every payload, policy, pipe size  *)
(* and timeout.  The argument counts bytes: until a reader gives up, what    *)
(* the child wrote is what the reader kept and what the pipe still holds.    *)

\* Waiting for the child comes before joining the readers and before done.
ReapedInTime ==
    /\ reaped => ~Alive
    /\ pc \in {"joinOut", "joinErr", "judge", "done"} => reaped

\* Where a reader neither gave up nor throws away, no byte is lost; none is
\* made up where it did.
BytesAreConserved ==
    \A ch \in Channels : cap[ch] # 0 =>
        /\ buf[ch] <= written[ch]
        /\ reader[ch] \notin {"overflow", "failed"} =>
               written[ch] = Counted(buf[ch] + pipe[ch])

\* A reader ends when nobody is left to write, or because of its cap.
ReadersEndInTime ==
    \A ch \in Channels :
        /\ reader[ch] = "eof" => pipe[ch] = 0 /\ ~Held
        /\ reader[ch] = "overflow" => cap[ch] \notin {None, 0} /\ written[ch] > cap[ch]

\* What the caller knows by where it is.
CallerKnows ==
    /\ pc \notin {"drop", "done"} => result = "none"
    /\ pc = "drop" => result \notin {"none", "ok"}
    /\ pc \in {"joinErr", "judge"} => reader["stdout"] # "reading"
    /\ pc = "judge" => reader["stderr"] # "reading"
    /\ result = "ok" =>
           pc = "done" /\ \A ch \in Channels : reader[ch] \in {"eof", "failed"}
    /\ child = "killed" => pc = "done" /\ result # "ok"

IInv == /\ TypeOK /\ ReapedInTime /\ BytesAreConserved
        /\ ReadersEndInTime /\ CallerKnows /\ ErrorsHaveTheirCause

-----------------------------------------------------------------------------

LEMMA CapsAreSizes ==
    ASSUME cap \in [Channels -> Caps], NEW ch \in Channels, cap[ch] # None
    PROVE  cap[ch] \in Nat /\ cap[ch] < Many
<1>1. cap[ch] \in Caps
  BY Zenon
<1> QED
  BY <1>1, DriverAssumption

\* The invariant holds of an invocation whose child was just spawned.
LEMMA InitHolds == ASSUME Init PROVE IInv
<1> USE DriverAssumption DEF Init
<1>1. TypeOK
  <2>1. \A ch \in Channels : cap[ch] # None => cap[ch] \in Nat
    BY CapsAreSizes
  <2>2. \A ch \in Channels : cap[ch] # None => buf[ch] <= cap[ch]
    BY <2>1, SMT
  <2>3. pipe \in [Channels -> 0..PipeCap] /\ written \in [Channels -> 0..Many]
    BY SMT
  <2>4. /\ reader \in [Channels -> {"reading", "eof", "overflow", "failed"}]
        /\ buf \in [Channels -> 0..Many]
    BY SMT
  <2>5. /\ payload \in Nat \cup {Streamed} /\ stdin \in 0..PipeCap
        /\ pc \in PCs /\ result \in Results /\ now \in 0..Timeout
    BY SMT DEF PCs, Results
  <2> QED
    BY <2>2, <2>3, <2>4, <2>5 DEF TypeOK
<1>2. ReapedInTime
  BY SMT DEF ReapedInTime, Channels
<1>3. BytesAreConserved /\ ReadersEndInTime
  BY SMT DEF BytesAreConserved, ReadersEndInTime, Channels, Counted
<1>4. CallerKnows /\ ErrorsHaveTheirCause
  BY SMT DEF CallerKnows, ErrorsHaveTheirCause
<1> QED
  BY <1>1, <1>2, <1>3, <1>4 DEF IInv

-----------------------------------------------------------------------------
(* The calling thread.                                                     *)

\* One step for each thing run_invocation does.
LEMMA CallerKeepsIInv ==
    ASSUME IInv, Caller \/ CopyReader \/ TryWaitFails
    PROVE  IInv'
<1> USE DriverAssumption
        DEF IInv, TypeOK, ReapedInTime, BytesAreConserved,
            ReadersEndInTime, CallerKnows, ErrorsHaveTheirCause, PCs, Results,
            Alive, Held, readers, childVars, env
<1>1. CASE StartReaders
  BY <1>1, SMT DEF StartReaders
<1>2. CASE WriteStdin
  BY <1>2, SMT DEF WriteStdin
<1>3. CASE StdinBroken
  BY <1>3, SMT DEF StdinBroken
<1>4. CASE CloseStdin
  BY <1>4, SMT DEF CloseStdin
<1>5. CASE CheckPolicy
  BY <1>5, SMT DEF CheckPolicy
<1>6. CASE TryWait
  <2>1. CASE Alive
    BY <1>6, <2>1, SMT DEF TryWait
  <2>2. CASE ~Alive
    <3>1. reaped' = TRUE /\ pc' = "joinOut"
      BY <1>6, <2>2 DEF TryWait
    <3> QED
      BY <1>6, <2>2, <3>1, SMT DEF TryWait
  <2> QED
    BY <2>1, <2>2
<1>7. CASE Judge
  BY <1>7, SMT DEF Judge, Channels
<1>8. CASE DropGuard
  BY <1>8, SMT DEF DropGuard
<1>9. ASSUME NEW ch \in Channels, Join(ch)
      PROVE  IInv'
  BY <1>9, SMT DEF Join, Joining, JoinNext, Channels
<1>10. CASE SourceEnds
  BY <1>10, SMT DEF SourceEnds
<1>11. CASE SourceFails
  BY <1>11, SMT DEF SourceFails
<1>12. CASE TryWaitFails
  BY <1>12, SMT DEF TryWaitFails
<1> QED
  BY <1>1, <1>2, <1>3, <1>4, <1>5, <1>6, <1>7, <1>8, <1>9, <1>10, <1>11, <1>12
     DEF Caller, WriteBytes, CopyReader

-----------------------------------------------------------------------------
(* The readers.                                                            *)

LEMMA ReaderKeepsIInv ==
    ASSUME IInv, NEW ch \in Channels, Reader(ch) \/ ReadFails(ch)
    PROVE  IInv'
<1> USE DriverAssumption
        DEF IInv, TypeOK, ReapedInTime, BytesAreConserved,
            ReadersEndInTime, CallerKnows, ErrorsHaveTheirCause, Alive, Held
<1>1. ASSUME NEW n \in 1..pipe[ch], Read(ch), Overflows(ch, n),
             reader' = [reader EXCEPT ![ch] = "overflow"],
             pipe' = [pipe EXCEPT ![ch] = 0], UNCHANGED buf
      PROVE  IInv'
  <2>1. TypeOK'
    BY <1>1, SMT DEF Read, Overflows, caller, childVars, env, Channels
  <2>2. ReapedInTime'
    BY <1>1, SMT DEF Read, Overflows, caller, childVars, env, Channels
  <2>3. BytesAreConserved'
    BY <1>1, SMT DEF Read, Overflows, caller, childVars, env, Channels
  <2>4. ReadersEndInTime'
    <3> USE <1>1 DEF Read, Overflows, caller, childVars, env
    <3>1. cap[ch] \notin {None, 0} /\ cap[ch] \in Nat /\ cap[ch] < Many
      BY CapsAreSizes
    <3>2. written[ch] > cap[ch]
      BY <3>1, SMT DEF Counted
    <3> QED
      BY <3>1, <3>2, SMT
  <2>5. CallerKnows'
    BY <1>1, SMT DEF Read, Overflows, caller, childVars, env, Channels
  <2>6. ErrorsHaveTheirCause'
    BY <1>1, SMT DEF Read, Overflows, caller, childVars, env, Channels
  <2> QED
    BY <2>1, <2>2, <2>3, <2>4, <2>5, <2>6
<1>2. ASSUME NEW n \in 1..pipe[ch], Read(ch), ~Overflows(ch, n),
             buf' = [buf EXCEPT ![ch] = Counted(@ + Kept(ch, n))],
             pipe' = [pipe EXCEPT ![ch] = @ - n], UNCHANGED reader
      PROVE  IInv'
  <2>1. TypeOK'
    <3> USE <1>2 DEF Read, Kept, caller, childVars, env
    <3>1. buf' \in [Channels -> 0..Many] /\ pipe' \in [Channels -> 0..PipeCap]
      BY SMT DEF Counted
    <3>2. cap[ch] # None => cap[ch] \in Nat
      BY CapsAreSizes
    <3>3. cap[ch] # None => buf'[ch] <= cap[ch]
      BY <3>2, SMT DEF Overflows, Counted
    <3>4. \A c \in Channels : cap[c] # None => buf'[c] <= cap[c]
      BY <3>3, SMT
    <3> QED
      BY <3>1, <3>4, SMT
  <2>2. ReapedInTime'
    BY <1>2, SMT DEF Read, Overflows, Kept, caller, childVars, env, Channels
  <2>3. BytesAreConserved'
    BY <1>2, SMT DEF Read, Overflows, Kept, caller, childVars, env, Channels, Counted
  <2>4. ReadersEndInTime'
    BY <1>2, SMT DEF Read, Overflows, Kept, caller, childVars, env, Channels
  <2>5. CallerKnows'
    BY <1>2, SMT DEF Read, Overflows, Kept, caller, childVars, env, Channels
  <2>6. ErrorsHaveTheirCause'
    BY <1>2, SMT DEF Read, Overflows, Kept, caller, childVars, env, Channels
  <2> QED
    BY <2>1, <2>2, <2>3, <2>4, <2>5, <2>6
<1>3. CASE ReadEof(ch)
  BY <1>3, SMT DEF ReadEof, caller, childVars, env, Channels
<1>4. CASE Read(ch)
  BY <1>1, <1>2, <1>4 DEF Read
<1>5. CASE ReadFails(ch)
  BY <1>5, SMT DEF ReadFails, caller, childVars, env, Channels
<1> QED
  BY <1>3, <1>4, <1>5 DEF Reader

-----------------------------------------------------------------------------
(* The child and the rest of the world.                                    *)

LEMMA ChildKeepsIInv ==
    ASSUME IInv, Child
    PROVE  IInv'
<1> USE DriverAssumption
        DEF IInv, TypeOK, ReapedInTime, BytesAreConserved,
            ReadersEndInTime, CallerKnows, ErrorsHaveTheirCause, Alive, Held,
            caller, readers, env
<1>1. CASE ChildCalls
  <2>1. TypeOK'
    BY <1>1, SMT DEF ChildCalls
  <2>2. ReapedInTime'
    BY <1>1, SMT DEF ChildCalls, Channels
  <2>3. BytesAreConserved'
    BY <1>1, SMT DEF ChildCalls
  <2>4. ReadersEndInTime'
    BY <1>1, SMT DEF ChildCalls
  <2>5. CallerKnows'
    BY <1>1, SMT DEF ChildCalls
  <2>6. ErrorsHaveTheirCause'
    BY <1>1, SMT DEF ChildCalls
  <2> QED
    BY <2>1, <2>2, <2>3, <2>4, <2>5, <2>6
<1>2. CASE ChildReads
  <2>1. TypeOK'
    BY <1>2, SMT DEF ChildReads
  <2>2. ReapedInTime'
    BY <1>2, SMT DEF ChildReads, Channels
  <2>3. BytesAreConserved'
    BY <1>2, SMT DEF ChildReads
  <2>4. ReadersEndInTime'
    BY <1>2, SMT DEF ChildReads
  <2>5. CallerKnows'
    BY <1>2, SMT DEF ChildReads
  <2>6. ErrorsHaveTheirCause'
    BY <1>2, SMT DEF ChildReads
  <2> QED
    BY <2>1, <2>2, <2>3, <2>4, <2>5, <2>6
<1>3. CASE ChildReadsEof
  <2>1. TypeOK'
    BY <1>3, SMT DEF ChildReadsEof
  <2>2. ReapedInTime'
    BY <1>3, SMT DEF ChildReadsEof, Channels
  <2>3. BytesAreConserved'
    BY <1>3, SMT DEF ChildReadsEof
  <2>4. ReadersEndInTime'
    BY <1>3, SMT DEF ChildReadsEof
  <2>5. CallerKnows'
    BY <1>3, SMT DEF ChildReadsEof
  <2>6. ErrorsHaveTheirCause'
    BY <1>3, SMT DEF ChildReadsEof
  <2> QED
    BY <2>1, <2>2, <2>3, <2>4, <2>5, <2>6
<1>4. CASE ChildExits
  BY <1>4, SMT DEF ChildExits
<1>5. ASSUME NEW ch \in Channels, ChildWrites(ch)
      PROVE  IInv'
  <2>1. TypeOK'
    BY <1>5, SMT DEF ChildWrites, Channels, Counted
  <2>2. ReapedInTime'
    BY <1>5, SMT DEF ChildWrites, Channels
  <2>3. BytesAreConserved'
    BY <1>5, SMT DEF ChildWrites, Channels, Counted
  <2>4. ReadersEndInTime'
    BY <1>5, SMT DEF ChildWrites, Channels, Counted
  <2>5. CallerKnows'
    BY <1>5, SMT DEF ChildWrites, Channels
  <2>6. ErrorsHaveTheirCause'
    <3>1. \A c \in Channels : written'[c] >= written[c]
      BY <1>5, SMT DEF ChildWrites, Counted
    <3>2. ASSUME NEW c \in Channels, cap[c] \notin {None, 0}, written[c] > cap[c]
          PROVE  written'[c] > cap[c]
      <4>1. cap[c] \in Nat /\ written[c] \in Nat /\ written'[c] \in Nat
        BY <1>5, <3>2, CapsAreSizes, SMT DEF ChildWrites, Counted
      <4> QED
        BY <3>1, <3>2, <4>1, SMT
    <3> QED
      BY <1>5, <3>2, SMT DEF ChildWrites
  <2> QED
    BY <2>1, <2>2, <2>3, <2>4, <2>5, <2>6
<1>6. ASSUME NEW ch \in Channels, ChildPipeBroken(ch)
      PROVE  IInv'
  BY <1>6, SMT DEF ChildPipeBroken
<1> QED
  BY <1>1, <1>2, <1>3, <1>4, <1>5, <1>6 DEF Child

LEMMA WorldKeepsIInv ==
    ASSUME IInv, ChildHangs \/ ChildForks \/ HeirExits \/ Abort \/ Tick
    PROVE  IInv'
<1> USE DriverAssumption
        DEF IInv, TypeOK, ReapedInTime, BytesAreConserved,
            ReadersEndInTime, CallerKnows, ErrorsHaveTheirCause, Alive, Held,
            caller, readers, childVars, env
<1>1. CASE ChildHangs
  BY <1>1, SMT DEF ChildHangs
<1>2. CASE ChildForks
  BY <1>2, SMT DEF ChildForks
<1>3. CASE HeirExits
  BY <1>3, SMT DEF HeirExits
<1>4. CASE Abort
  BY <1>4, SMT DEF Abort
<1>5. CASE Tick
  BY <1>5, SMT DEF Tick
<1> QED
  BY <1>1, <1>2, <1>3, <1>4, <1>5

LEMMA StepKeepsIInv ==
    ASSUME IInv, [Next]_vars
    PROVE  IInv'
<1>1. CASE UNCHANGED vars
  BY <1>1 DEF vars, caller, readers, childVars, env, IInv, TypeOK,
              ReapedInTime, BytesAreConserved,
              ReadersEndInTime, CallerKnows, ErrorsHaveTheirCause, Alive, Held
<1>2. CASE Next
  BY <1>2, CallerKeepsIInv, ReaderKeepsIInv, ChildKeepsIInv, WorldKeepsIInv
     DEF Next
<1> QED
  BY <1>1, <1>2

LEMMA InvariantHolds == Spec => []IInv
<1>1. Init => IInv
  BY InitHolds
<1>2. IInv /\ [Next]_vars => IInv'
  BY StepKeepsIInv
<1> QED
  BY <1>1, <1>2, PTL DEF Spec

-----------------------------------------------------------------------------
(* What a reader of the driver wants to know.                              *)

\* Types, and that a buffer never exceeds its cap, for any sizes.
THEOREM TypeCorrect == Spec => []TypeOK
<1>1. IInv => TypeOK
  BY DEF IInv
<1> QED
  BY <1>1, InvariantHolds, PTL

\* Whatever invoke returns, the child has ended and was waited for.
THEOREM NoChildOutlives == Spec => []NoChildOutlivesItsInvocation
<1>1. IInv => NoChildOutlivesItsInvocation
  BY DEF IInv, ReapedInTime, NoChildOutlivesItsInvocation
<1> QED
  BY <1>1, InvariantHolds, PTL

\* An outcome is everything the child wrote to a channel that is not
\* discarded, or a part of it where the reader met an error, and the child
\* ended by itself.
THEOREM OutcomesComplete == Spec => []OutcomesAreComplete
<1>1. ASSUME IInv, result = "ok"
      PROVE  child = "exited"
  BY <1>1 DEF IInv, TypeOK, CallerKnows, ReapedInTime, Alive
<1>2. ASSUME IInv, result = "ok", NEW ch \in Channels, cap[ch] # 0
      PROVE  buf[ch] <= written[ch] /\ (reader[ch] # "failed" => buf[ch] = written[ch])
  BY <1>2, DriverAssumption, SMT
     DEF IInv, TypeOK, CallerKnows, ReadersEndInTime, BytesAreConserved, Counted
<1>3. IInv => OutcomesAreComplete
  BY <1>1, <1>2 DEF OutcomesAreComplete
<1> QED
  BY <1>3, InvariantHolds, PTL

\* No error is reported that did not happen.
THEOREM ErrorsCaused == Spec => []ErrorsHaveTheirCause
<1>1. IInv => ErrorsHaveTheirCause
  BY DEF IInv
<1> QED
  BY <1>1, InvariantHolds, PTL
=============================================================================
