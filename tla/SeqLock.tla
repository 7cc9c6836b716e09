------------------------------ MODULE SeqLock -------------------------------
(***************************************************************************)
(* SeqLock<T> of land_sync (sync/src/seqlock.rs): one writer, any number   *)
(* of readers, a version that is odd while a write is in progress.         *)
(*                                                                         *)
(* T is a set of words.  The copies of T are not atomic: a word is read or *)
(* written in a step of its own, in any order.  Steps are taken in program *)
(* order (see the README for the orderings of the code) and the version is *)
(* a number without an upper end: it would take 2^63 writes during a       *)
(* single read to come back to a value.                                    *)
(***************************************************************************)
EXTENDS Integers

CONSTANTS
  Words,      \* the words of T
  Values,     \* what a word may hold
  Initial,    \* the value given to SeqLock::new
  Readers,    \* reader threads
  MaxVersion  \* bound of the model: no write begins past it

ASSUME InitialAssumption == Initial \in [Words -> Values]
ASSUME MaxVersionAssumption == MaxVersion \in Nat

VARIABLES
  version,
  data,       \* the protected value
  wpc,        \* the writer: "idle" or "write"
  wtodo,      \* words the write has yet to store
  wvalue,     \* what it stores
  rpc,        \* rpc[r]: "idle", "begin" (inside the loop of read) or "copy"
  rspin,      \* rspin[r]: the call is read or read_with, which retry
  rwords,     \* rwords[r]: the words the call wants
  rv1,        \* rv1[r]: version loaded before the copy
  rcopied,    \* rcopied[r]: the words copied so far
  rcopy,      \* rcopy[r]: their values
  (* observations, not part of the program *)
  committed,  \* the value of the last write that has ended
  got         \* got[r]: what the last successful read of r returned

lock == <<version, data>>
wvars == <<wpc, wtodo, wvalue>>
rvars == <<rpc, rspin, rwords, rv1, rcopied, rcopy>>
vars == <<lock, wvars, rvars, committed, got>>

Odd(v) == v % 2 = 1

(* SeqLock::new *)
Init ==
  /\ version = 0 /\ data = Initial
  /\ wpc = "idle" /\ wtodo = {} /\ wvalue = Initial
  /\ rpc = [r \in Readers |-> "idle"]
  /\ rspin = [r \in Readers |-> FALSE]
  /\ rwords = [r \in Readers |-> {}]
  /\ rv1 = [r \in Readers |-> 0]
  /\ rcopied = [r \in Readers |-> {}]
  /\ rcopy = [r \in Readers |-> Initial]
  /\ committed = Initial
  /\ got = [r \in Readers |-> [w \in {} |-> Initial[w]]]

(***************************************************************************)
(* The writer                                                              *)
(***************************************************************************)

(* The first Version::increment of write (which stores every word) and of  *)
(* update (whose closure stores some).                                     *)
BeginWrite(ws, val) ==
  /\ wpc = "idle"
  /\ version < MaxVersion
  /\ version' = version + 1
  /\ wpc' = "write" /\ wtodo' = ws /\ wvalue' = val
  /\ UNCHANGED <<data, rvars, committed, got>>

StoreWord(w) ==
  /\ wpc = "write" /\ w \in wtodo
  /\ data' = [data EXCEPT ![w] = wvalue[w]]
  /\ wtodo' = wtodo \ {w}
  /\ UNCHANGED <<version, wpc, wvalue, rvars, committed, got>>

(* Variant of EndWrite, for mutation: the second increment is forgotten. *)
EndWriteLocked ==
  /\ wpc = "write" /\ wtodo = {}
  /\ wpc' = "idle"
  /\ committed' = data
  /\ UNCHANGED <<version, data, wtodo, wvalue, rvars, got>>

(* The second Version::increment. *)
EndWrite ==
  /\ wpc = "write" /\ wtodo = {}
  /\ version' = version + 1
  /\ wpc' = "idle"
  /\ committed' = data
  /\ UNCHANGED <<data, wtodo, wvalue, rvars, got>>

(***************************************************************************)
(* A reader                                                                *)
(***************************************************************************)

(* The call returns None: try_read and try_read_with hand that to the      *)
(* caller, read and read_with try again.                                   *)
Interrupted(r) == rpc' = [rpc EXCEPT ![r] = IF rspin[r] THEN "begin" ELSE "idle"]

(* Variant of LoadVersion, for mutation: an odd version is not refused. *)
LoadVersionAny(r) ==
  /\ rpc[r] = "begin"
  /\ rpc' = [rpc EXCEPT ![r] = "copy"]
  /\ rv1' = [rv1 EXCEPT ![r] = version]
  /\ rcopied' = [rcopied EXCEPT ![r] = {}]
  /\ UNCHANGED <<lock, wvars, rspin, rwords, rcopy, committed, got>>

(* v1: the version before the copy. *)
LoadVersion(r) ==
  /\ rpc[r] = "begin"
  /\ IF Odd(version)
       THEN Interrupted(r) /\ UNCHANGED <<rv1, rcopied>>
       ELSE /\ rpc' = [rpc EXCEPT ![r] = "copy"]
            /\ rv1' = [rv1 EXCEPT ![r] = version]
            /\ rcopied' = [rcopied EXCEPT ![r] = {}]
  /\ UNCHANGED <<lock, wvars, rspin, rwords, rcopy, committed, got>>

(* try_read and read copy all words, the closure of try_read_with and      *)
(* read_with looks at the words it likes.                                  *)
BeginRead(r, ws, spin) ==
  /\ rpc[r] = "idle"
  /\ rpc' = [rpc EXCEPT ![r] = "begin"]
  /\ rspin' = [rspin EXCEPT ![r] = spin]
  /\ rwords' = [rwords EXCEPT ![r] = ws]
  /\ UNCHANGED <<lock, wvars, rv1, rcopied, rcopy, committed, got>>

CopyWord(r, w) ==
  /\ rpc[r] = "copy" /\ w \in rwords[r] \ rcopied[r]
  /\ rcopied' = [rcopied EXCEPT ![r] = @ \cup {w}]
  /\ rcopy' = [rcopy EXCEPT ![r][w] = data[w]]
  /\ UNCHANGED <<lock, wvars, rpc, rspin, rwords, rv1, committed, got>>

(* v2: the version after the copy. *)
CheckVersion(r) ==
  /\ rpc[r] = "copy" /\ rcopied[r] = rwords[r]
  /\ IF version = rv1[r]
       THEN /\ rpc' = [rpc EXCEPT ![r] = "idle"]
            /\ got' = [got EXCEPT ![r] = [w \in rwords[r] |-> rcopy[r][w]]]
       ELSE Interrupted(r) /\ UNCHANGED got
  /\ UNCHANGED <<lock, wvars, rspin, rwords, rv1, rcopied, rcopy, committed>>

(***************************************************************************)
(* The specification                                                       *)
(***************************************************************************)
WriterStep == EndWrite \/ \E w \in Words : StoreWord(w)

ReaderStep(r) ==
  LoadVersion(r) \/ CheckVersion(r) \/ \E w \in Words : CopyWord(r, w)

Next ==
  \/ WriterStep
  \/ \E ws \in SUBSET Words, val \in [Words -> Values] : BeginWrite(ws, val)
  \/ \E r \in Readers : ReaderStep(r)
  \/ \E r \in Readers, ws \in SUBSET Words, spin \in BOOLEAN : BeginRead(r, ws, spin)

Spec == Init /\ [][Next]_vars

(* A thread inside a call keeps running. *)
FairSpec ==
  Spec /\ WF_vars(WriterStep) /\ \A r \in Readers : WF_vars(ReaderStep(r))

(***************************************************************************)
(* Properties                                                              *)
(***************************************************************************)

(* Every variable has its type, and the version is odd exactly while the   *)
(* writer is between its two increments.                                   *)
TypeOK ==
  /\ version \in Nat /\ data \in [Words -> Values]
  /\ wpc \in {"idle", "write"} /\ wtodo \subseteq Words
  /\ wvalue \in [Words -> Values]
  /\ Odd(version) <=> wpc = "write"
  /\ rpc \in [Readers -> {"idle", "begin", "copy"}]
  /\ rspin \in [Readers -> BOOLEAN] /\ rwords \in [Readers -> SUBSET Words]
  /\ rv1 \in [Readers -> Nat] /\ rcopied \in [Readers -> SUBSET Words]
  /\ rcopy \in [Readers -> [Words -> Values]]
  /\ committed \in [Words -> Values]

(* The lock implements a register: a write takes effect at its second      *)
(* increment and a successful read returns words that were together in the *)
(* register at one moment of the call, never a mixture of two writes.      *)
Reg == INSTANCE Register WITH value <- committed

ReadsAreAtomic == Reg!Spec

(* A read or read_with returns once the writer leaves it alone, which it   *)
(* does here because the writes are bounded.                               *)
SpinReadReturns ==
  \A r \in Readers : (rpc[r] \in {"begin", "copy"}) ~> (rpc[r] = "idle")

(***************************************************************************)
(* The inductive invariant behind ReadsAreAtomic                           *)
(***************************************************************************)

(* Outside a write the data is what the last write committed. *)
DataCommitted == wpc = "idle" => data = committed

(* As long as the version is the one a reader loaded, no write has begun   *)
(* since, so that everything it has copied is still in place.              *)
CopiesCurrent ==
  \A r \in Readers : rpc[r] = "copy" =>
    /\ ~Odd(rv1[r]) /\ rv1[r] <= version
    /\ rcopied[r] \subseteq rwords[r]
    /\ rv1[r] = version => \A w \in rcopied[r] : rcopy[r][w] = data[w]

Inv == TypeOK /\ DataCommitted /\ CopiesCurrent
=============================================================================
