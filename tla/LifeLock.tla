------------------------------- MODULE LifeLock -------------------------------
(***************************************************************************)
(* life_lock and life_locked (src/thirdparty/include/life_lock.hpp), which *)
(* protect every queue of the boxes and every part of the Server against   *)
(* the callbacks that use them.                                            *)
(*                                                                         *)
(* The lock owns one reference to itself.  Callbacks hold weak pointers    *)
(* and turn them into shared ones for the length of a call; whoever drops  *)
(* the last shared pointer runs the deleter, which writes the status word. *)
(* One thread, the owner, retires and destroys the lock.                   *)
(*                                                                         *)
(* Its specification has names of its own, so that the proofs about a loop *)
(* and about the lock of its handlers can extend both modules.             *)
(***************************************************************************)
EXTENDS Naturals, FiniteSets

CONSTANTS
  User,     \* threads that run callbacks
  Owner,    \* as a holder: whoever has the pointer that retire() returned
  MaxInit   \* bound: how often the lock may be initialized

ASSUME OwnerAssumption == Owner \notin User
ASSUME InitAssumption == MaxInit \in Nat \ {0}

VARIABLES
  ref,     \* life_lock::_ref is not null
  status,  \* life_lock::_status
  gen,     \* number of the control block that _ref has, or had
  weak,    \* control block of each user's weak pointer; 0 if it has none
  holds,   \* "none"; "held", a shared pointer; "deleting", in the deleter
  pc, job, \* where the owner is, and in which function of life_locked
  object   \* the protected object: "alive" or "destroyed"

lifeVars == <<ref, status, gen, weak, holds, pc, job, object>>

Holder == User \cup {Owner}
Status == {"working", "retired", "expired", "empty"}

Holding(h) == holds[h] = "held"
(* use_count() of the control block.                                       *)
InUse == ref \/ \E h \in Holder : Holding(h)

(* life_lock::status().  init() leaves the word at empty.                  *)
status_t ==
  IF status \in {"retired", "expired"} THEN status ELSE IF ref THEN "working" ELSE "empty"

LockInit ==
  /\ ref = TRUE /\ status = "working" /\ gen = 1
  /\ weak = [u \in User |-> 0]
  /\ holds = [h \in Holder |-> "none"]
  /\ pc = "idle" /\ job = "none"
  /\ object = "alive"

-----------------------------------------------------------------------------
(***************************************************************************)
(* The owner hands out pointers: weak() and lock().  Both are empty when   *)
(* _ref is.                                                                *)
(***************************************************************************)
Weak(u) ==
  /\ pc = "idle"
  /\ weak' = [weak EXCEPT ![u] = IF ref THEN gen ELSE 0]
  /\ UNCHANGED <<ref, status, gen, holds, pc, job, object>>

Lock(u) ==
  /\ pc = "idle"
  /\ ref /\ holds[u] = "none"
  /\ holds' = [holds EXCEPT ![u] = "held"]
  /\ UNCHANGED <<ref, status, gen, weak, pc, job, object>>

(* weak_ptr::lock in a callback.                                           *)
Upgrade_Expired(u) ==
  /\ weak[u] = gen /\ holds[u] = "none"
  /\ holds' = [holds EXCEPT ![u] = "held"]
  /\ UNCHANGED <<ref, status, gen, weak, pc, job, object>>

Upgrade(u) ==
  /\ weak[u] = gen /\ holds[u] = "none"
  /\ InUse
  /\ holds' = [holds EXCEPT ![u] = "held"]
  /\ UNCHANGED <<ref, status, gen, weak, pc, job, object>>

(* A shared pointer goes; the last one enters the deleter.                 *)
Dropped(h) ==
  holds' = [holds EXCEPT ![h] =
    IF ref \/ \E g \in Holder \ {h} : Holding(g) THEN "none" ELSE "deleting"]

Release(h) ==
  /\ Holding(h)
  /\ h = Owner => pc \in {"idle", "awaiting", "unlocking"}
  /\ Dropped(h)
  /\ UNCHANGED <<ref, status, gen, weak, pc, job, object>>

(* _deleter::operator()                                                    *)
Deleter_Silent(h) ==
  /\ holds[h] = "deleting"
  /\ holds' = [holds EXCEPT ![h] = "none"]
  /\ UNCHANGED <<ref, status, gen, weak, pc, job, object>>

Deleter(h) ==
  /\ holds[h] = "deleting"
  /\ status' = "expired"
  /\ holds' = [holds EXCEPT ![h] = "none"]
  /\ UNCHANGED <<ref, gen, weak, pc, job, object>>

-----------------------------------------------------------------------------
(***************************************************************************)
(* _retire, for retire() and for destroy(): _ref moves to a local pointer, *)
(* the word is stored, and only then may the local pointer go.             *)
(***************************************************************************)
RetireMove(j) ==
  /\ ref' = FALSE
  /\ holds' = [holds EXCEPT ![Owner] = "held"]
  /\ pc' = "storing" /\ job' = j

RetireStore_DropsFirst ==
  /\ pc = "storing"
  /\ IF Holding(Owner) THEN Dropped(Owner) /\ UNCHANGED <<status, pc>>
     ELSE /\ status' = "retired" /\ UNCHANGED holds
          /\ pc' = IF job = "retire" THEN "idle" ELSE "awaiting"
  /\ UNCHANGED <<ref, gen, weak, job, object>>

RetireStore ==
  /\ pc = "storing"
  /\ status' = "retired"
  /\ pc' = IF job = "retire" THEN "idle" ELSE "dropping"
  /\ UNCHANGED <<ref, gen, weak, holds, job, object>>

(* destroy() discards the pointer that retire() returned.                  *)
RetireDrop ==
  /\ pc = "dropping"
  /\ Dropped(Owner)
  /\ pc' = "awaiting"
  /\ UNCHANGED <<ref, status, gen, weak, job, object>>

(* retire().  life_locked drops the pointer that life_lock::retire returns *)
(* at once; the caller of the latter may keep it for a while.              *)
Retire ==
  /\ pc = "idle" /\ status_t = "working"
  /\ RetireMove("retire")
  /\ UNCHANGED <<status, gen, weak, object>>

(***************************************************************************)
(* life_locked::destroy, alone or from the destructor: nothing happens     *)
(* unless the lock is working.  The destructor of the member life_lock     *)
(* then calls destroy() of its own, which starts from any status.          *)
(***************************************************************************)
Destroy(j) ==
  /\ pc = "idle"
  /\ IF status_t = "working"
     THEN RetireMove(j)
     ELSE /\ pc' = IF j = "destroy" THEN "idle" ELSE "unlocking"
          /\ job' = j /\ UNCHANGED <<ref, holds>>
  /\ UNCHANGED <<status, gen, weak, object>>

(* _await_expiration returns when the word says expired.                   *)
Await ==
  /\ pc = "awaiting"
  /\ status = "expired"
  /\ pc' = "finalizing"
  /\ UNCHANGED <<ref, status, gen, weak, holds, job, object>>

(* _finalize, and back in life_locked the destructor of the object.        *)
Finalize ==
  /\ pc = "finalizing"
  /\ status' = "empty"
  /\ IF job = "lock" THEN pc' = "gone" /\ UNCHANGED object
     ELSE /\ object' = "destroyed"
          /\ pc' = IF job = "destroy" THEN "idle" ELSE "unlocking"
  /\ UNCHANGED <<ref, gen, weak, holds, job>>

(* ~life_lock of the member.                                               *)
Unlock ==
  /\ pc = "unlocking"
  /\ job' = "lock"
  /\ pc' = IF status_t = "retired" THEN "awaiting"
           ELSE IF status_t = "expired" THEN "finalizing" ELSE "gone"
  /\ UNCHANGED <<ref, status, gen, weak, holds, object>>

(* life_lock::init, for an object made anew in the same place.             *)
Reinit ==
  /\ pc = "idle" /\ status_t = "empty"
  /\ gen < MaxInit
  /\ gen' = gen + 1
  /\ ref' = TRUE
  /\ object' = "alive"
  /\ UNCHANGED <<status, weak, holds, pc, job>>

-----------------------------------------------------------------------------
OwnerStep == RetireStore \/ RetireDrop \/ Await \/ Finalize \/ Unlock

LockNext ==
  \/ \E u \in User : Weak(u) \/ Lock(u) \/ Upgrade(u)
  \/ \E h \in Holder : Release(h) \/ Deleter(h)
  \/ Retire \/ Destroy("destroy") \/ Destroy("destructor")
  \/ OwnerStep
  \/ Reinit

LockSpec == LockInit /\ [][LockNext]_lifeVars

(* Callbacks return, the deleter runs on, and so does the owner.           *)
LockFairness ==
  /\ WF_lifeVars(OwnerStep)
  /\ \A h \in Holder : WF_lifeVars(Release(h)) /\ WF_lifeVars(Deleter(h))

FairLockSpec == LockSpec /\ LockFairness

-----------------------------------------------------------------------------
(***************************************************************************)
(* Correctness.                                                            *)
(***************************************************************************)
LockTypeOK ==
  /\ ref \in BOOLEAN
  /\ status \in Status
  /\ gen \in 1 .. MaxInit
  /\ weak \in [User -> 0 .. MaxInit]
  /\ holds \in [Holder -> {"none", "held", "deleting"}]
  /\ pc \in {"idle", "storing", "dropping", "awaiting", "finalizing", "unlocking", "gone"}
  /\ job \in {"none", "retire", "destroy", "destructor", "lock"}
  /\ object \in {"alive", "destroyed"}

(* destroy() delays the destruction of the object: whoever has a shared    *)
(* pointer to it, or could still make one from a weak pointer, finds it    *)
(* alive, and the deleter never writes to a lock that is gone or in use    *)
(* again.                                                                  *)
HeldMeansAlive ==
  /\ LockTypeOK
  /\ InUse => object = "alive"
  /\ \A h \in Holder : holds[h] = "deleting" => pc # "gone" /\ ~InUse

(* The status word only goes forward: that the last pointer has gone is    *)
(* never overwritten by the news that the lock is retired, which would     *)
(* leave _await_expiration waiting.                                        *)
StatusGoesForward ==
  [][ /\ status = "expired" => status' \in {"expired", "empty"}
      /\ status = "retired" => status' \in {"retired", "expired"}
      /\ status' = "expired" => status \in {"retired", "expired"} ]_lifeVars

(* destroy() and the destructors return once the callbacks let go.  Two     *)
(* callbacks that take turns can keep the count above zero for as long as  *)
(* they please, so this needs that new ones stop coming.                   *)
DestroyReturns ==
  <>[][\A u \in User : ~Upgrade(u)]_lifeVars =>
    /\ pc \notin {"idle", "unlocking", "gone"} ~> pc \in {"idle", "unlocking", "gone"}
    /\ pc = "unlocking" ~> pc = "gone"

(* The destructor of life_locked destroys the object: a lock that is gone  *)
(* leaves no object behind.                                                *)
GoneMeansDestroyed == pc = "gone" => object = "destroyed"
=============================================================================
