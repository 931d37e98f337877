------------------------------ MODULE AuditLog ------------------------------
(***************************************************************************)
(* The JSONL audit log that several processes append to (pkg/common:       *)
(* audit.go, audit_lock_flock.go, audit_parent_unix.go).                   *)
(*                                                                         *)
(* A line is three symbols, so that a write can stop inside the payload or *)
(* before the newline.  A call is WriteAuditRecord or, without a record to *)
(* write, CheckAuditLogWritable, in a process of its own.  A process may   *)
(* be killed or stop for good wherever it is, also while it holds the      *)
(* lock, and the machine may lose power.                                   *)
(***************************************************************************)
EXTENDS Integers, Sequences

CONSTANTS
    Calls,      \* calls of WriteAuditRecord and CheckAuditLogWritable
    Live,       \* those whose process goes on; another may stall for good
    Free,       \* nobody holds the lock
    MaxLosses   \* bound on power losses

ASSUME ConstantsAssumption ==
    Free \notin Calls /\ Live \subseteq Calls /\ MaxLosses \in Nat

VARIABLES
    pc,        \* where each call is
    probe,     \* it is CheckAuditLogWritable
    failed,    \* opErr # nil
    result,    \* what it returned
    holder,    \* who holds the flock
    file,      \* the content of the log
    durable,   \* how much of it survives a power loss
    linked,    \* its directory entry survives a power loss
    losses

vars == <<pc, probe, failed, result, holder, file, durable, linked, losses>>

PCs == {"idle", "lock", "wait", "expired", "late", "parents", "inspect", "repair",
        "repairsync", "write", "sync", "terminate", "terminatesync", "unlock", "close", "done", "crashed"}
Symbols == [by : Calls, part : {"head", "tail", "newline"}]

Line(c) == <<[by |-> c, part |-> "head"], [by |-> c, part |-> "tail"],
             [by |-> c, part |-> "newline"]>>
Newline(c) == [by |-> c, part |-> "newline"]

Running(c) == pc[c] \notin {"idle", "done", "crashed"}

-----------------------------------------------------------------------------
Goto(c, l) == pc' = [pc EXCEPT ![c] = l]
Go(c, l) == Goto(c, l) /\ UNCHANGED failed
Fail(c, l) == Goto(c, l) /\ failed' = [failed EXCEPT ![c] = TRUE]
Return(c, r) == Goto(c, "done") /\ result' = [result EXCEPT ![c] = r] /\ UNCHANGED failed

(* openAuditLogForAppend: the file is created if need be, even when        *)
(* binding its parents fails.                                              *)
Open(c) ==
    /\ pc[c] = "idle"
    /\ \E p \in BOOLEAN : probe' = [probe EXCEPT ![c] = p]
    /\ (Go(c, "lock") /\ UNCHANGED result) \/ Return(c, "error")
    /\ UNCHANGED <<holder, file, durable, linked, losses>>

(* Lock tries the lock without blocking.  It is given up at once on an     *)
(* error, and tried again after a while when another call holds it or the  *)
(* attempt was interrupted; got after the deadline, it is given back.      *)
Lock(c) ==
    /\ pc[c] = "lock"
    /\ \/ /\ holder = Free /\ holder' = c
          /\ Go(c, "parents") \/ Go(c, "late")
       \/ Go(c, "wait") /\ UNCHANGED holder
       \/ Fail(c, "close") /\ UNCHANGED holder
    /\ UNCHANGED <<probe, result, file, durable, linked, losses>>

Retry(c) ==
    /\ pc[c] = "wait"
    /\ Go(c, "lock")
    /\ UNCHANGED <<probe, result, holder, file, durable, linked, losses>>

(* Mutant: the deadline is computed anew for every attempt. *)
MutantRearmsDeadline(c) ==
    /\ pc[c] = "expired"
    /\ Go(c, "lock")
    /\ UNCHANGED <<probe, result, holder, file, durable, linked, losses>>

(* The loop finds no time remaining.                                       *)
LockTimesOut(c) ==
    /\ pc[c] = "expired"
    /\ Fail(c, "close")
    /\ UNCHANGED <<probe, result, holder, file, durable, linked, losses>>

ReleaseLate(c) ==
    /\ pc[c] = "late"
    /\ holder' \in {Free, c}
    /\ Fail(c, "close")
    /\ UNCHANGED <<probe, result, file, durable, linked, losses>>

(* syncParents, before any work.                                           *)
SyncParents(c) ==
    /\ pc[c] = "parents"
    /\ \/ Go(c, IF probe[c] THEN "unlock" ELSE "inspect") /\ linked' = TRUE
       \/ Fail(c, "unlock") /\ UNCHANGED linked
    /\ UNCHANGED <<probe, result, holder, file, durable, losses>>

(* Mutant: an abandoned record is not repaired. *)
MutantNoRepair(c) ==
    /\ pc[c] = "inspect"
    /\ Go(c, "write") \/ Fail(c, "unlock")
    /\ UNCHANGED <<probe, result, holder, file, durable, linked, losses>>

NeedsRecordSeparator == file # <<>> /\ file[Len(file)].part # "newline"

(* repairAbandonedAuditRecord: does the file end inside a record?          *)
Inspect(c) ==
    /\ pc[c] = "inspect"
    /\ Go(c, IF NeedsRecordSeparator THEN "repair" ELSE "write") \/ Fail(c, "unlock")
    /\ UNCHANGED <<probe, result, holder, file, durable, linked, losses>>

(* terminatePartialAuditRecord: one newline, then a sync of its own.       *)
Separate(c, at, sync) ==
    /\ pc[c] = at
    /\ \/ file' = Append(file, Newline(c)) /\ Go(c, sync)
       \/ Fail(c, "unlock") /\ UNCHANGED file
    /\ UNCHANGED <<probe, result, holder, durable, linked, losses>>

SyncSeparator(c, at, next) ==
    /\ pc[c] = at
    /\ \/ Go(c, next) /\ durable' = Len(file)
       \/ Fail(c, "unlock") /\ UNCHANGED durable
    /\ UNCHANGED <<probe, result, holder, file, linked, losses>>

(* Write: the whole line, or a part of it with an error.                   *)
WriteLine(c) ==
    /\ pc[c] = "write"
    /\ \E n \in 0..Len(Line(c)) :
          /\ file' = file \o SubSeq(Line(c), 1, n)
          /\ CASE n = Len(Line(c)) -> Go(c, "sync")
               [] n = 0 -> Fail(c, "unlock")
               [] OTHER -> Fail(c, "terminate")
    /\ UNCHANGED <<probe, result, holder, durable, linked, losses>>

(* Mutant: a failed sync is only logged. *)
MutantSyncIgnored(c) ==
    /\ pc[c] = "sync"
    /\ Go(c, "unlock")
    /\ durable' \in {durable, Len(file)}
    /\ UNCHANGED <<probe, result, holder, file, linked, losses>>

SyncLine(c) ==
    /\ pc[c] = "sync"
    /\ \/ Go(c, "unlock") /\ durable' = Len(file)
       \/ Fail(c, "unlock") /\ UNCHANGED durable
    /\ UNCHANGED <<probe, result, holder, file, linked, losses>>

(* An interrupted unlock is tried again, without a bound: that changes     *)
(* nothing here.                                                           *)
Unlock(c) ==
    /\ pc[c] = "unlock"
    /\ \/ Go(c, "close") /\ holder' = Free
       \/ Fail(c, "close") /\ UNCHANGED holder
    /\ UNCHANGED <<probe, result, file, durable, linked, losses>>

(* Mutant: a failed close keeps the descriptor, and the lock with it. *)
MutantCloseKeepsLock(c) ==
    /\ pc[c] = "close"
    /\ Return(c, "error") \/ (~failed[c] /\ Return(c, "success"))
    /\ UNCHANGED <<probe, holder, file, durable, linked, losses>>

(* closeAuditLog: closing the descriptor drops the lock in any case.       *)
Close(c) ==
    /\ pc[c] = "close"
    /\ holder' = IF holder = c THEN Free ELSE holder
    /\ Return(c, "error") \/ (~failed[c] /\ Return(c, "success"))
    /\ UNCHANGED <<probe, file, durable, linked, losses>>

-----------------------------------------------------------------------------
(* The operating system (external).                                        *)

(* The deadline passes before the next attempt.                            *)
Deadline(c) ==
    /\ pc[c] \in {"lock", "wait"}
    /\ Go(c, "expired")
    /\ UNCHANGED <<probe, result, holder, file, durable, linked, losses>>

Kill(c) ==
    /\ Running(c)
    /\ Go(c, "crashed")
    /\ holder' = IF holder = c THEN Free ELSE holder
    /\ UNCHANGED <<probe, result, file, durable, linked, losses>>

(* What was not synced may be lost, from the end; without a synced entry   *)
(* the file may be gone.                                                   *)
PowerLoss ==
    /\ losses < MaxLosses
    /\ losses' = losses + 1
    /\ pc' = [c \in Calls |-> IF Running(c) THEN "crashed" ELSE pc[c]]
    /\ holder' = Free
    /\ \/ /\ \E n \in durable..Len(file) : file' = SubSeq(file, 1, n) /\ durable' = n
          /\ UNCHANGED linked
       \/ ~linked /\ file' = <<>> /\ durable' = 0 /\ UNCHANGED linked
    /\ UNCHANGED <<probe, failed, result>>

-----------------------------------------------------------------------------
Init ==
    /\ pc = [c \in Calls |-> "idle"]
    /\ probe = [c \in Calls |-> FALSE]
    /\ failed = [c \in Calls |-> FALSE]
    /\ result = [c \in Calls |-> "none"]
    /\ holder = Free
    /\ file = <<>> /\ durable = 0 /\ linked = FALSE
    /\ losses = 0

CallStep(c) ==
    \/ Lock(c) \/ Retry(c) \/ LockTimesOut(c) \/ ReleaseLate(c)
    \/ SyncParents(c) \/ Inspect(c)
    \/ Separate(c, "repair", "repairsync") \/ SyncSeparator(c, "repairsync", "write")
    \/ WriteLine(c) \/ SyncLine(c)
    \/ Separate(c, "terminate", "terminatesync") \/ SyncSeparator(c, "terminatesync", "unlock")
    \/ Unlock(c) \/ Close(c)

Next ==
    \/ \E c \in Calls : Open(c) \/ CallStep(c) \/ Deadline(c) \/ Kill(c)
    \/ PowerLoss

Spec == Init /\ [][Next]_vars

(* A live process goes on and its clock advances.  Its system calls return,*)
(* and the release of the lock is not interrupted for ever.  Nothing is    *)
(* assumed of the other processes, nor of who gets the lock.               *)
FairSpec == Spec /\ \A c \in Live : WF_vars(CallStep(c)) /\ WF_vars(Deadline(c))

-----------------------------------------------------------------------------
(* Properties.                                                             *)

TypeOK ==
    /\ pc \in [Calls -> PCs]
    /\ probe \in [Calls -> BOOLEAN] /\ failed \in [Calls -> BOOLEAN]
    /\ result \in [Calls -> {"none", "success", "error"}]
    /\ holder \in Calls \cup {Free}
    /\ file \in Seq(Symbols)
    /\ durable \in 0..Len(file)
    /\ linked \in BOOLEAN /\ losses \in 0..MaxLosses

(* No two records share a line, whatever was cut short by a short write, a *)
(* kill or a power loss: within a line a payload is only continued by its  *)
(* own rest.                                                               *)
RecordsNeverMerge ==
    \A i \in 1..(Len(file) - 1) :
        (file[i].part # "newline" /\ file[i + 1].part # "newline") =>
            file[i + 1] = [file[i] EXCEPT !.part = "tail"] /\ file[i].part = "head"

(* WriteAuditRecord returns nil only for a record that survives a power    *)
(* loss: whole, terminated, synced, in a file whose entry is synced.       *)
SuccessIsDurable ==
    \A c \in Calls : (result[c] = "success" /\ ~probe[c]) =>
        /\ linked
        /\ \E i \in 1..(durable - 2) : SubSeq(file, i, i + 2) = Line(c)

(* The lock is held only by a call in its transaction: a late lock, a      *)
(* failed unlock or a killed process does not keep it.                     *)
LockIsReleased == holder # Free => Running(holder)

(* A call of a live process returns, although the lock is tried in a loop  *)
(* and its holder may have stopped for good: the deadline of Lock ends the *)
(* wait, however often an attempt fails or is interrupted.                 *)
CallsReturn == \A c \in Live : pc[c] # "idle" ~> ~Running(c)
=============================================================================
