----------------------------- MODULE KaiSyscall -----------------------------
(* The system call of the KAI engine (kai/core/kai_syscall.c) and the interface *)
(* for other modules, which does without the limits.  The inference itself is   *)
(* KaiInfer's; here it succeeds or fails.                                       *)
EXTENDS Naturals, FiniteSets

CONSTANTS
  Callers,
  MaxConcurrent,  \* MAX_CONCURRENT_INFERENCES
  Burst           \* calls the rate limit lets through in a second, 100

SyscallAssumption ==
  IsFiniteSet(Callers) /\ MaxConcurrent \in Nat \ {0} /\ Burst \in Nat \ {0}

VARIABLES
  caller,   \* per caller: place, its buffers and what the call returns
  active,   \* active_inferences
  tokens    \* what rate_limit lets through for the rest of the second

syscallVars == <<caller, active, tokens>>

Inside == {"name", "input", "output", "infer", "copy_out", "copy_meta", "free", "release"}
Places == {"idle", "rated", "refused", "direct"} \cup Inside
Results == {"ok", "perm", "again", "fault", "inval", "nomem", "failed"}
Buffers == {"input", "output"}

TypeOK ==
  /\ caller \in [Callers -> [place : Places, buffers : SUBSET Buffers, result : Results]]
  /\ active \in 0..Cardinality(Callers)
  /\ tokens \in 0..Burst

Idle == [place |-> "idle", buffers |-> {}, result |-> "ok"]

Init ==
  /\ caller = [c \in Callers |-> Idle]
  /\ active = 0 /\ tokens = Burst

Move(c, from, to) ==
  /\ caller[c].place = from
  /\ caller' = [caller EXCEPT ![c].place = to]

Ends(c, from, result) ==
  /\ caller[c].place = from
  /\ caller' = [caller EXCEPT ![c].place = "idle", ![c].result = result]

Fails(c, from, to, result) ==
  /\ caller[c].place = from
  /\ caller' = [caller EXCEPT ![c].place = to, ![c].result = result]

---------------------------------------------------------------------------
(* check_inference_permission() *)

(* Bad arguments or no capability; the caller may also be over the rate.        *)
Reject(c) ==
  /\ \/ \E result \in {"inval", "fault", "perm"} : Ends(c, "idle", result)
     \/ tokens = 0 /\ Ends(c, "idle", "again")
  /\ UNCHANGED <<active, tokens>>

Rate(c) ==
  /\ tokens > 0 /\ tokens' = tokens - 1
  /\ Move(c, "idle", "rated")
  /\ UNCHANGED active

NewSecond ==
  /\ tokens < Burst /\ tokens' = Burst
  /\ UNCHANGED <<caller, active>>

(* The counter is raised before it is judged, so a caller on its way out counts *)
(* against one that would have had room.                                        *)
Count(c) ==
  /\ caller[c].place = "rated"
  /\ active' = active + 1
  /\ caller' = [caller EXCEPT ![c].place = IF active + 1 > MaxConcurrent THEN "refused"
                                                                        ELSE "name"]
  /\ UNCHANGED tokens

StepBack(c) ==
  /\ Ends(c, "refused", "again")
  /\ active' = active - 1
  /\ UNCHANGED tokens

---------------------------------------------------------------------------
(* The call *)

CopyName(c) ==
  /\ Move(c, "name", "input") \/ Fails(c, "name", "release", "fault")
  /\ UNCHANGED <<active, tokens>>

(* copy_input_from_user(): an empty, too large or unreadable input.             *)
CopyInput(c) ==
  /\ \/ \E result \in {"inval", "fault", "nomem"} : Fails(c, "input", "release", result)
     \/ /\ caller[c].place = "input"
        /\ caller' = [caller EXCEPT ![c].place = "output", ![c].buffers = {"input"}]
  /\ UNCHANGED <<active, tokens>>

AllocateOutput(c) ==
  /\ \/ \E result \in {"inval", "nomem"} : Fails(c, "output", "free", result)
     \/ /\ caller[c].place = "output"
        /\ caller' = [caller EXCEPT ![c].place = "infer", ![c].buffers = Buffers]
  /\ UNCHANGED <<active, tokens>>

Infer(c) ==
  /\ Move(c, "infer", "copy_out") \/ Fails(c, "infer", "copy_meta", "failed")
  /\ UNCHANGED <<active, tokens>>

CopyOutput(c) ==
  /\ Move(c, "copy_out", "copy_meta")
     \/ \E result \in {"inval", "fault"} : Fails(c, "copy_out", "copy_meta", result)
  /\ UNCHANGED <<active, tokens>>

(* Latency and request id; when they cannot be written, -EFAULT is the result.  *)
CopyMeta(c) ==
  /\ Move(c, "copy_meta", "free") \/ Fails(c, "copy_meta", "free", "fault")
  /\ UNCHANGED <<active, tokens>>

Free(c) ==
  /\ caller[c].place = "free"
  /\ caller' = [caller EXCEPT ![c].place = "release", ![c].buffers = {}]
  /\ UNCHANGED <<active, tokens>>

(* Mutant for PermitsBalanced: a call that failed keeps its place.              *)
ReleaseOnSuccess(c) ==
  /\ Move(c, "release", "idle")
  /\ active' = IF caller[c].result = "ok" THEN active - 1 ELSE active
  /\ UNCHANGED tokens

Release(c) ==
  /\ Move(c, "release", "idle")
  /\ active' = active - 1
  /\ UNCHANGED tokens

(* A new call of the same task.                                                 *)
Again(c) ==
  /\ caller[c].place = "idle" /\ caller[c] # Idle
  /\ caller' = [caller EXCEPT ![c] = Idle]
  /\ UNCHANGED <<active, tokens>>

(* kai_syscall_infer(): capabilities and sizes, and then the inference.         *)
Direct(c) ==
  /\ Move(c, "idle", "direct")
     \/ \E result \in {"inval", "perm"} : Ends(c, "idle", result)
  /\ UNCHANGED <<active, tokens>>

DirectInfer(c) ==
  /\ \E result \in {"ok", "failed"} : Ends(c, "direct", result)
  /\ UNCHANGED <<active, tokens>>

Next ==
  \/ NewSecond
  \/ \E c \in Callers :
       \/ Reject(c) \/ Rate(c) \/ Count(c) \/ StepBack(c) \/ CopyName(c) \/ CopyInput(c)
       \/ AllocateOutput(c) \/ Infer(c) \/ CopyOutput(c) \/ CopyMeta(c) \/ Free(c)
       \/ Release(c) \/ Again(c) \/ Direct(c) \/ DirectInfer(c)

Spec == Init /\ [][Next]_syscallVars

---------------------------------------------------------------------------
(* Properties *)

At(places) == {c \in Callers : caller[c].place \in places}

(* Whichever way a call ends, its place and its buffers are given back: the     *)
(* count is that of the calls inside and of those on their way out, it never    *)
(* admits more than the limit, and a task outside holds no buffer.              *)
PermitsBalanced ==
  /\ active = Cardinality(At(Inside \cup {"refused"}))
  /\ Cardinality(At(Inside)) <= MaxConcurrent
  /\ \A c \in Callers : caller[c].place \notin Inside => caller[c].buffers = {}
=============================================================================
