--------------------------- MODULE LocalSendProofs ---------------------------
(***************************************************************************)
(* Proofs that the safety properties of LocalSend hold for any number of   *)
(* request goroutines, declared files and sessions.                        *)
(*                                                                         *)
(* None of the properties is inductive alone.  Bookkeeping is the          *)
(* strengthening: what a goroutine may rely on between its two critical    *)
(* sections (its session id was really issued, its file really declared)   *)
(* and what a recorded entry says of the goroutine that recorded it.       *)
(***************************************************************************)
EXTENDS LocalSend, FiniteSetTheorems, TLAPS

\* The states of a goroutine that has validated and not yet settled its file.
Uploading == {"validated", "failing", "written"}

SidIssued ==
    /\ current <= lastSid
    /\ \A r \in Requests : req[r].pc \in InFlight => req[r].sid \in 1..lastSid

FileDeclared ==
    \A r \in Requests : req[r].pc \in Uploading =>
        req[r].file \in sess[req[r].sid].files

NameSafe ==
    \A r \in Requests : req[r].pc \in {"validated", "written"} =>
        req[r].file \notin UnsafeFiles

OwnerPastRecording ==
    \A s \in Sid : \A e \in sess[s].entries :
        req[e.by].pc \notin Uploading \cup {"idle"}

ReceiptIssued == \A x \in receipts : x.sid <= lastSid

JournalingHasReceipt ==
    \A r \in Requests : req[r].pc = "journaling" =>
        \E x \in receipts : x.sid = req[r].sid

Bookkeeping ==
    /\ SidIssued
    /\ FileDeclared
    /\ NameSafe
    /\ OwnerPastRecording
    /\ ReceiptIssued
    /\ JournalingHasReceipt

IInv == /\ TypeOK
        /\ PendingExact
        /\ SlotNotWedged
        /\ Bookkeeping
        /\ EntriesSound
        /\ ReceiptsExact

\* What settling one file does to its session: pending stays exact, and a
\* session that does not close has an unsettled file left.
LEMMA SettleLemma ==
    ASSUME TypeOK, PendingExact,
           NEW s \in Sid, NEW f \in sess[s].files \ sess[s].done,
           NEW E, E \subseteq Entry
    PROVE  LET ns == Settle(sess[s], f, E) IN
           /\ ns \in Session
           /\ ns.files = sess[s].files
           /\ ns.done = sess[s].done \cup {f}
           /\ ns.entries = sess[s].entries \cup E
           /\ ns.done \subseteq ns.files
           /\ ns.pending = Cardinality(ns.files \ ns.done)
           /\ ~Closes(sess[s]) => ns.files \ ns.done # {}
  <1> DEFINE ns == Settle(sess[s], f, E)
             S  == sess[s].files \ sess[s].done
  <1>1. sess[s] \in Session
    BY DEF TypeOK
  <1>2. /\ sess[s].files \subseteq Files
        /\ sess[s].done \subseteq sess[s].files
        /\ sess[s].pending = Cardinality(S)
    BY <1>1 DEF Session, PendingExact
  <1>3. IsFiniteSet(S)
    BY <1>2, FS_Subset, ConstantsAssumption
  <1>4. /\ Cardinality(S) \in Nat
        /\ Cardinality(S \ {f}) = Cardinality(S) - 1
        /\ IsFiniteSet(S \ {f})
    BY <1>3, FS_RemoveElement, FS_CardinalityType
  <1>5. /\ Cardinality(S \ {f}) \in Nat
        /\ (Cardinality(S \ {f}) = 0) <=> (S \ {f} = {})
    BY <1>4, FS_CardinalityType, FS_EmptySet
  <1>6. /\ ns.files = sess[s].files
        /\ ns.done = sess[s].done \cup {f}
        /\ ns.pending = sess[s].pending - 1
        /\ ns.entries = sess[s].entries \cup E
    BY <1>1 DEF Settle, Session
  <1>7. ns.files \ ns.done = S \ {f}
    BY <1>6
  <1>8. ns.pending \in Nat
    BY <1>2, <1>4, <1>5, <1>6
  <1>9. ns \in Session
    <2>1. ns.files \in SUBSET Files /\ ns.done \in SUBSET Files
      BY <1>1, <1>2, <1>6 DEF Session
    <2>2. ns.entries \in SUBSET Entry
      BY <1>1, <1>6 DEF Session
    <2> QED
      BY <1>8, <2>1, <2>2 DEF Settle, Session
  <1>10. ~Closes(sess[s]) => ns.files \ ns.done # {}
    BY <1>2, <1>4, <1>5, <1>7 DEF Closes
  <1>11. ns.done \subseteq ns.files
    BY <1>2, <1>6
  <1> QED
    BY <1>2, <1>4, <1>6, <1>7, <1>9, <1>10, <1>11

\* The initial state satisfies the inductive invariant.
LEMMA InitInv == Init => IInv
  <1> SUFFICES ASSUME Init PROVE IInv
    OBVIOUS
  <1>1. NoSession \in Session
    BY DEF NoSession, Session
  <1>2. TypeOK
    BY <1>1, ConstantsAssumption DEF Init, TypeOK, Sid, Idle, Request, PC,
       Status
  <1>3. PendingExact
    BY FS_EmptySet DEF Init, PendingExact, NoSession
  <1>4. SlotNotWedged /\ Bookkeeping /\ EntriesSound /\ ReceiptsExact
    BY DEF Init, SlotNotWedged, NoSession, Idle, InFlight, Uploading, Closing,
           Bookkeeping, SidIssued, FileDeclared, NameSafe, OwnerPastRecording,
           ReceiptIssued, JournalingHasReceipt, EntriesSound, ReceiptsExact,
           ReceiptOfClosed, OneFinalizer, ReceiptOnce, JournalBacked
  <1> QED
    BY <1>2, <1>3, <1>4 DEF IInv

\* handleUpload answering 403 or 409 ends a request that owns nothing.
LEMMA UploadRefuseInv ==
    ASSUME IInv, NEW r \in Requests, NEW s \in Sid, NEW f \in Files,
           UploadRefuse(r, s, f)
    PROVE  IInv'
  <1>1. TypeOK'
    BY ConstantsAssumption DEF IInv, TypeOK, Bookkeeping, SidIssued,
       UploadRefuse, Request, PC, Status, Sid, InFlight
  <1>2. PendingExact'
    BY DEF IInv, PendingExact, UploadRefuse
  <1>3. SlotNotWedged'
    BY DEF IInv, SlotNotWedged, TypeOK, UploadRefuse
  <1>4. Bookkeeping'
    <2> USE DEF IInv, TypeOK, UploadRefuse, Bookkeeping, SidIssued, Request
    <2>1. SidIssued'
      BY DEF Sid, InFlight, PC
    <2>2. FileDeclared'
      BY DEF FileDeclared, Uploading, Sid, InFlight, PC
    <2>3. NameSafe'
      BY DEF NameSafe
    <2>4. OwnerPastRecording'
      BY DEF OwnerPastRecording, Uploading, Session, Entry, InFlight, PC
    <2>5. ReceiptIssued'
      BY DEF ReceiptIssued, InFlight, PC
    <2>6. JournalingHasReceipt'
      BY DEF JournalingHasReceipt
    <2> QED
      BY <2>1, <2>2, <2>3, <2>4, <2>5, <2>6
  <1>5. EntriesSound'
    BY DEF IInv, TypeOK, EntriesSound, Bookkeeping, OwnerPastRecording,
       UploadRefuse, Request, Session, Entry
  <1>6. ReceiptsExact'
    <2> USE DEF IInv, TypeOK, UploadRefuse, ReceiptsExact, Bookkeeping,
       SidIssued, Request
    <2>1. ReceiptOfClosed'
      BY DEF ReceiptOfClosed, ReceiptIssued, OneFinalizer, Closing, Sid
    <2>2. OneFinalizer'
      BY DEF OneFinalizer, Closing, InFlight, PC
    <2>3. ReceiptOnce'
      BY DEF ReceiptOnce, OneFinalizer, ReceiptOfClosed, Closing
    <2>4. JournalBacked'
      BY DEF JournalBacked, JournalingHasReceipt
    <2> QED
      BY <2>1, <2>2, <2>3, <2>4
  <1> QED
    BY <1>1, <1>2, <1>3, <1>4, <1>5, <1>6 DEF IInv

\* handleUpload's first critical section: the request's session is issued and
\* its file declared from here on.
LEMMA UploadValidateInv ==
    ASSUME IInv, NEW r \in Requests, NEW s \in Sid, NEW f \in Files,
           UploadValidate(r, s, f)
    PROVE  IInv'
  <1>1. TypeOK'
    BY ConstantsAssumption DEF IInv, TypeOK, Bookkeeping, SidIssued,
       UploadValidate, Accepts, Request, PC, Status, Sid, InFlight
  <1>2. PendingExact'
    BY DEF IInv, PendingExact, UploadValidate, Accepts
  <1>3. SlotNotWedged'
    BY DEF IInv, SlotNotWedged, TypeOK, UploadValidate, Accepts
  <1>4. Bookkeeping'
    <2> USE DEF IInv, TypeOK, UploadValidate, Accepts, Bookkeeping,
       SidIssued, Request
    <2>1. SidIssued'
      BY DEF Sid, InFlight, PC
    <2>2. FileDeclared'
      BY DEF FileDeclared, Uploading, Sid, InFlight, PC
    <2>3. NameSafe'
      BY DEF NameSafe
    <2>4. OwnerPastRecording'
      BY DEF OwnerPastRecording, Uploading, Session, Entry, InFlight, PC
    <2>5. ReceiptIssued'
      BY DEF ReceiptIssued, InFlight, PC
    <2>6. JournalingHasReceipt'
      BY DEF JournalingHasReceipt
    <2> QED
      BY <2>1, <2>2, <2>3, <2>4, <2>5, <2>6
  <1>5. EntriesSound'
    BY DEF IInv, TypeOK, EntriesSound, Bookkeeping, OwnerPastRecording,
       UploadValidate, Accepts, Request, Session, Entry
  <1>6. ReceiptsExact'
    <2> USE DEF IInv, TypeOK, UploadValidate, Accepts, ReceiptsExact,
       Bookkeeping, SidIssued, Request
    <2>1. ReceiptOfClosed'
      BY DEF ReceiptOfClosed, ReceiptIssued, OneFinalizer, Closing, Sid
    <2>2. OneFinalizer'
      BY DEF OneFinalizer, Closing, InFlight, PC
    <2>3. ReceiptOnce'
      BY DEF ReceiptOnce, OneFinalizer, ReceiptOfClosed, Closing
    <2>4. JournalBacked'
      BY DEF JournalBacked, JournalingHasReceipt
    <2> QED
      BY <2>1, <2>2, <2>3, <2>4
  <1> QED
    BY <1>1, <1>2, <1>3, <1>4, <1>5, <1>6 DEF IInv

\* The body became a blob.
LEMMA WriteBlobOkInv ==
    ASSUME IInv, NEW r \in Requests, WriteBlobOk(r)
    PROVE  IInv'
  <1>1. TypeOK'
    BY ConstantsAssumption DEF IInv, TypeOK, Bookkeeping, SidIssued,
       WriteBlobOk, Request, PC, Status, Sid, InFlight
  <1>2. PendingExact'
    BY DEF IInv, PendingExact, WriteBlobOk
  <1>3. SlotNotWedged'
    BY DEF IInv, SlotNotWedged, TypeOK, WriteBlobOk
  <1>4. Bookkeeping'
    <2> USE DEF IInv, TypeOK, WriteBlobOk, Bookkeeping, SidIssued, Request
    <2>1. SidIssued'
      BY DEF Sid, InFlight, PC
    <2>2. FileDeclared'
      BY DEF FileDeclared, Uploading, Sid, InFlight, PC
    <2>3. NameSafe'
      BY DEF NameSafe
    <2>4. OwnerPastRecording'
      BY DEF OwnerPastRecording, Uploading, Session, Entry, InFlight, PC
    <2>5. ReceiptIssued'
      BY DEF ReceiptIssued, InFlight, PC
    <2>6. JournalingHasReceipt'
      BY DEF JournalingHasReceipt
    <2> QED
      BY <2>1, <2>2, <2>3, <2>4, <2>5, <2>6
  <1>5. EntriesSound'
    BY DEF IInv, TypeOK, EntriesSound, Bookkeeping, OwnerPastRecording,
       WriteBlobOk, Request, Session, Entry
  <1>6. ReceiptsExact'
    <2> USE DEF IInv, TypeOK, WriteBlobOk, ReceiptsExact, Bookkeeping,
       SidIssued, Request
    <2>1. ReceiptOfClosed'
      BY DEF ReceiptOfClosed, ReceiptIssued, OneFinalizer, Closing, Sid
    <2>2. OneFinalizer'
      BY DEF OneFinalizer, Closing, InFlight, PC
    <2>3. ReceiptOnce'
      BY DEF ReceiptOnce, OneFinalizer, ReceiptOfClosed, Closing
    <2>4. JournalBacked'
      BY DEF JournalBacked, JournalingHasReceipt
    <2> QED
      BY <2>1, <2>2, <2>3, <2>4
  <1> QED
    BY <1>1, <1>2, <1>3, <1>4, <1>5, <1>6 DEF IInv

\* The blob write failed.
LEMMA WriteBlobFailInv ==
    ASSUME IInv, NEW r \in Requests, WriteBlobFail(r)
    PROVE  IInv'
  <1>1. TypeOK'
    BY ConstantsAssumption DEF IInv, TypeOK, Bookkeeping, SidIssued,
       WriteBlobFail, Request, PC, Status, Sid, InFlight
  <1>2. PendingExact'
    BY DEF IInv, PendingExact, WriteBlobFail
  <1>3. SlotNotWedged'
    BY DEF IInv, SlotNotWedged, TypeOK, WriteBlobFail
  <1>4. Bookkeeping'
    <2> USE DEF IInv, TypeOK, WriteBlobFail, Bookkeeping, SidIssued, Request
    <2>1. SidIssued'
      BY DEF Sid, InFlight, PC
    <2>2. FileDeclared'
      BY DEF FileDeclared, Uploading, Sid, InFlight, PC
    <2>3. NameSafe'
      BY DEF NameSafe
    <2>4. OwnerPastRecording'
      BY DEF OwnerPastRecording, Uploading, Session, Entry, InFlight, PC
    <2>5. ReceiptIssued'
      BY DEF ReceiptIssued, InFlight, PC
    <2>6. JournalingHasReceipt'
      BY DEF JournalingHasReceipt
    <2> QED
      BY <2>1, <2>2, <2>3, <2>4, <2>5, <2>6
  <1>5. EntriesSound'
    BY DEF IInv, TypeOK, EntriesSound, Bookkeeping, OwnerPastRecording,
       WriteBlobFail, Request, Session, Entry
  <1>6. ReceiptsExact'
    <2> USE DEF IInv, TypeOK, WriteBlobFail, ReceiptsExact, Bookkeeping,
       SidIssued, Request
    <2>1. ReceiptOfClosed'
      BY DEF ReceiptOfClosed, ReceiptIssued, OneFinalizer, Closing, Sid
    <2>2. OneFinalizer'
      BY DEF OneFinalizer, Closing, InFlight, PC
    <2>3. ReceiptOnce'
      BY DEF ReceiptOnce, OneFinalizer, ReceiptOfClosed, Closing
    <2>4. JournalBacked'
      BY DEF JournalBacked, JournalingHasReceipt
    <2> QED
      BY <2>1, <2>2, <2>3, <2>4
  <1> QED
    BY <1>1, <1>2, <1>3, <1>4, <1>5, <1>6 DEF IInv

\* handleCancel closes the active session or changes nothing.
LEMMA CancelInv ==
    ASSUME IInv, NEW r \in Requests, NEW s \in 0..MaxSession, Cancel(r, s)
    PROVE  IInv'
  <1>1. TypeOK'
    <2>1. req' \in [Requests -> Request]
      BY ConstantsAssumption DEF IInv, TypeOK, Cancel, Request, PC, Status
    <2>2. current' \in 0..MaxSession
      BY ConstantsAssumption DEF IInv, TypeOK, Cancel
    <2> QED
      BY <2>1, <2>2 DEF IInv, TypeOK, Cancel
  <1>2. PendingExact'
    BY DEF IInv, PendingExact, Cancel
  <1>3. SlotNotWedged'
    BY DEF IInv, SlotNotWedged, TypeOK, Cancel
  <1>4. Bookkeeping'
    <2> USE DEF IInv, TypeOK, Cancel, Bookkeeping, SidIssued, Request
    <2>1. SidIssued'
      BY DEF Sid, InFlight, PC
    <2>2. FileDeclared'
      BY DEF FileDeclared, Uploading, Sid, InFlight, PC
    <2>3. NameSafe'
      BY DEF NameSafe
    <2>4. OwnerPastRecording'
      BY DEF OwnerPastRecording, Uploading, Session, Entry, InFlight, PC
    <2>5. ReceiptIssued'
      BY DEF ReceiptIssued, InFlight, PC
    <2>6. JournalingHasReceipt'
      BY DEF JournalingHasReceipt
    <2> QED
      BY <2>1, <2>2, <2>3, <2>4, <2>5, <2>6
  <1>5. EntriesSound'
    BY DEF IInv, TypeOK, EntriesSound, Bookkeeping, OwnerPastRecording,
       Cancel, Request, Session, Entry
  <1>6. ReceiptsExact'
    <2> USE DEF IInv, TypeOK, Cancel, ReceiptsExact, Bookkeeping, SidIssued,
       Request
    <2>1. ReceiptOfClosed'
      BY DEF ReceiptOfClosed, ReceiptIssued, OneFinalizer, Closing, Sid
    <2>2. OneFinalizer'
      BY DEF OneFinalizer, Closing, InFlight, PC
    <2>3. ReceiptOnce'
      BY DEF ReceiptOnce, OneFinalizer, ReceiptOfClosed, Closing
    <2>4. JournalBacked'
      BY DEF JournalBacked, JournalingHasReceipt
    <2> QED
      BY <2>1, <2>2, <2>3, <2>4
  <1> QED
    BY <1>1, <1>2, <1>3, <1>4, <1>5, <1>6 DEF IInv

\* finalize of a session without entries.
LEMMA FinalizeEmptyInv ==
    ASSUME IInv, NEW r \in Requests, FinalizeEmpty(r)
    PROVE  IInv'
  <1>1. TypeOK'
    BY ConstantsAssumption DEF IInv, TypeOK, Bookkeeping, SidIssued,
       FinalizeEmpty, Request, PC, Status, Sid, InFlight
  <1>2. PendingExact'
    BY DEF IInv, PendingExact, FinalizeEmpty
  <1>3. SlotNotWedged'
    BY DEF IInv, SlotNotWedged, TypeOK, FinalizeEmpty
  <1>4. Bookkeeping'
    <2> USE DEF IInv, TypeOK, FinalizeEmpty, Bookkeeping, SidIssued, Request
    <2>1. SidIssued'
      BY DEF Sid, InFlight, PC
    <2>2. FileDeclared'
      BY DEF FileDeclared, Uploading, Sid, InFlight, PC
    <2>3. NameSafe'
      BY DEF NameSafe
    <2>4. OwnerPastRecording'
      BY DEF OwnerPastRecording, Uploading, Session, Entry, InFlight, PC
    <2>5. ReceiptIssued'
      BY DEF ReceiptIssued, InFlight, PC
    <2>6. JournalingHasReceipt'
      BY DEF JournalingHasReceipt
    <2> QED
      BY <2>1, <2>2, <2>3, <2>4, <2>5, <2>6
  <1>5. EntriesSound'
    BY DEF IInv, TypeOK, EntriesSound, Bookkeeping, OwnerPastRecording,
       FinalizeEmpty, Request, Session, Entry
  <1>6. ReceiptsExact'
    <2> USE DEF IInv, TypeOK, FinalizeEmpty, ReceiptsExact, Bookkeeping,
       SidIssued, Request
    <2>1. ReceiptOfClosed'
      BY DEF ReceiptOfClosed, ReceiptIssued, OneFinalizer, Closing, Sid
    <2>2. OneFinalizer'
      BY DEF OneFinalizer, Closing, InFlight, PC
    <2>3. ReceiptOnce'
      BY DEF ReceiptOnce, OneFinalizer, ReceiptOfClosed, Closing
    <2>4. JournalBacked'
      BY DEF JournalBacked, JournalingHasReceipt
    <2> QED
      BY <2>1, <2>2, <2>3, <2>4
  <1> QED
    BY <1>1, <1>2, <1>3, <1>4, <1>5, <1>6 DEF IInv

\* finalize's receipt write, succeeding or failing.
LEMMA WriteReceiptInv ==
    ASSUME IInv, NEW r \in Requests, WriteReceipt(r)
    PROVE  IInv'
  <1>1. TypeOK'
    <2>1. req[r].sid \in Sid
      BY ConstantsAssumption
         DEF IInv, TypeOK, Bookkeeping, SidIssued, WriteReceipt, InFlight,
            PC, Sid
    <2>2. req' \in [Requests -> Request]
      BY DEF IInv, TypeOK, WriteReceipt, AfterReceiptError, Request, PC
    <2>3. receipts' \subseteq [sid : Sid, entries : SUBSET Entry]
      BY <2>1 DEF IInv, TypeOK, WriteReceipt, Session
    <2>4. journal' \subseteq Sid
      BY <2>1 DEF IInv, TypeOK, WriteReceipt
    <2> QED
      BY <2>2, <2>3, <2>4 DEF IInv, TypeOK, WriteReceipt
  <1>2. PendingExact'
    BY DEF IInv, PendingExact, WriteReceipt, AfterReceiptError
  <1>3. SlotNotWedged'
    BY DEF IInv, SlotNotWedged, TypeOK, WriteReceipt, AfterReceiptError
  <1>4. Bookkeeping'
    <2> USE DEF IInv, TypeOK, WriteReceipt, AfterReceiptError, Bookkeeping,
       SidIssued, Request
    <2>1. SidIssued'
      BY DEF Sid, InFlight, PC
    <2>2. FileDeclared'
      BY DEF FileDeclared, Uploading, Sid, InFlight, PC
    <2>3. NameSafe'
      BY DEF NameSafe
    <2>4. OwnerPastRecording'
      BY DEF OwnerPastRecording, Uploading, Session, Entry, InFlight, PC
    <2>5. ReceiptIssued'
      BY DEF ReceiptIssued, InFlight, PC
    <2>6. JournalingHasReceipt'
      <3> SUFFICES ASSUME NEW q \in Requests, req'[q].pc = "journaling"
                   PROVE  \E x \in receipts' : x.sid = req'[q].sid
        BY DEF JournalingHasReceipt
      <3>1. receipts \subseteq receipts' /\ req'[q].sid = req[q].sid
        OBVIOUS
      <3>2. CASE q = r
        <4>1. [sid |-> req[r].sid, entries |-> sess[req[r].sid].entries]
                  \in receipts'
          BY <3>2
        <4> QED
          BY <3>1, <3>2, <4>1
      <3>3. CASE q # r
        BY <3>1, <3>3 DEF JournalingHasReceipt
      <3> QED
        BY <3>2, <3>3
    <2> QED
      BY <2>1, <2>2, <2>3, <2>4, <2>5, <2>6
  <1>5. EntriesSound'
    BY DEF IInv, TypeOK, EntriesSound, Bookkeeping, OwnerPastRecording,
       WriteReceipt, AfterReceiptError, Request, Session, Entry
  <1>6. ReceiptsExact'
    <2> USE DEF IInv, TypeOK, WriteReceipt, AfterReceiptError,
       ReceiptsExact, Bookkeeping, SidIssued, Request
    <2>1. ReceiptOfClosed'
      BY DEF ReceiptOfClosed, ReceiptIssued, OneFinalizer, Closing, Sid
    <2>2. OneFinalizer'
      BY DEF OneFinalizer, Closing, InFlight, PC
    <2>3. ReceiptOnce'
      BY DEF ReceiptOnce, OneFinalizer, ReceiptOfClosed, Closing
    <2>4. JournalBacked'
      BY DEF JournalBacked, JournalingHasReceipt
    <2> QED
      BY <2>1, <2>2, <2>3, <2>4
  <1> QED
    BY <1>1, <1>2, <1>3, <1>4, <1>5, <1>6 DEF IInv

\* finalize's best-effort journal line.
LEMMA AppendLogInv ==
    ASSUME IInv, NEW r \in Requests, AppendLog(r)
    PROVE  IInv'
  <1>1. TypeOK'
    <2>1. req[r].sid \in Sid
      BY ConstantsAssumption
         DEF IInv, TypeOK, Bookkeeping, SidIssued, AppendLog, InFlight, PC,
            Sid
    <2>2. req' \in [Requests -> Request]
      BY DEF IInv, TypeOK, AppendLog, Request, PC
    <2>3. receipts' \subseteq [sid : Sid, entries : SUBSET Entry]
      BY <2>1 DEF IInv, TypeOK, AppendLog, Session
    <2>4. journal' \subseteq Sid
      BY <2>1 DEF IInv, TypeOK, AppendLog
    <2> QED
      BY <2>2, <2>3, <2>4 DEF IInv, TypeOK, AppendLog
  <1>2. PendingExact'
    BY DEF IInv, PendingExact, AppendLog
  <1>3. SlotNotWedged'
    BY DEF IInv, SlotNotWedged, TypeOK, AppendLog
  <1>4. Bookkeeping'
    <2> USE DEF IInv, TypeOK, AppendLog, Bookkeeping, SidIssued, Request
    <2>1. SidIssued'
      BY DEF Sid, InFlight, PC
    <2>2. FileDeclared'
      BY DEF FileDeclared, Uploading, Sid, InFlight, PC
    <2>3. NameSafe'
      BY DEF NameSafe
    <2>4. OwnerPastRecording'
      BY DEF OwnerPastRecording, Uploading, Session, Entry, InFlight, PC
    <2>5. ReceiptIssued'
      BY DEF ReceiptIssued, InFlight, PC
    <2>6. JournalingHasReceipt'
      BY DEF JournalingHasReceipt
    <2> QED
      BY <2>1, <2>2, <2>3, <2>4, <2>5, <2>6
  <1>5. EntriesSound'
    BY DEF IInv, TypeOK, EntriesSound, Bookkeeping, OwnerPastRecording,
       AppendLog, Request, Session, Entry
  <1>6. ReceiptsExact'
    <2> USE DEF IInv, TypeOK, AppendLog, ReceiptsExact, Bookkeeping,
       SidIssued, Request
    <2>1. ReceiptOfClosed'
      BY DEF ReceiptOfClosed, ReceiptIssued, OneFinalizer, Closing, Sid
    <2>2. OneFinalizer'
      BY DEF OneFinalizer, Closing, InFlight, PC
    <2>3. ReceiptOnce'
      BY DEF ReceiptOnce, OneFinalizer, ReceiptOfClosed, Closing
    <2>4. JournalBacked'
      BY DEF JournalBacked, JournalingHasReceipt
    <2> QED
      BY <2>1, <2>2, <2>3, <2>4
  <1> QED
    BY <1>1, <1>2, <1>3, <1>4, <1>5, <1>6 DEF IInv

\* The process exits under its handlers.
LEMMA ExitInv ==
    ASSUME IInv, Exit
    PROVE  IInv'
  <1>1. TypeOK'
    BY ConstantsAssumption DEF IInv, TypeOK, Bookkeeping, SidIssued, Exit,
       Request, PC, Status, Sid, InFlight
  <1>2. PendingExact'
    BY DEF IInv, PendingExact, Exit
  <1>3. SlotNotWedged'
    BY DEF IInv, SlotNotWedged, TypeOK, Exit
  <1>4. Bookkeeping'
    <2> USE DEF IInv, TypeOK, Exit, Bookkeeping, SidIssued, Request
    <2>1. SidIssued'
      BY DEF Sid, InFlight, PC
    <2>2. FileDeclared'
      BY DEF FileDeclared, Uploading, Sid, InFlight, PC
    <2>3. NameSafe'
      BY DEF NameSafe
    <2>4. OwnerPastRecording'
      BY DEF OwnerPastRecording, Uploading, Session, Entry, InFlight, PC
    <2>5. ReceiptIssued'
      BY DEF ReceiptIssued, InFlight, PC
    <2>6. JournalingHasReceipt'
      BY DEF JournalingHasReceipt
    <2> QED
      BY <2>1, <2>2, <2>3, <2>4, <2>5, <2>6
  <1>5. EntriesSound'
    BY DEF IInv, TypeOK, EntriesSound, Bookkeeping, OwnerPastRecording,
       Exit, Request, Session, Entry
  <1>6. ReceiptsExact'
    <2> USE DEF IInv, TypeOK, Exit, ReceiptsExact, Bookkeeping, SidIssued,
       Request
    <2>1. ReceiptOfClosed'
      BY DEF ReceiptOfClosed, ReceiptIssued, OneFinalizer, Closing, Sid
    <2>2. OneFinalizer'
      BY DEF OneFinalizer, Closing, InFlight, PC
    <2>3. ReceiptOnce'
      BY DEF ReceiptOnce, OneFinalizer, ReceiptOfClosed, Closing
    <2>4. JournalBacked'
      BY DEF JournalBacked, JournalingHasReceipt
    <2> QED
      BY <2>1, <2>2, <2>3, <2>4
  <1> QED
    BY <1>1, <1>2, <1>3, <1>4, <1>5, <1>6 DEF IInv

\* handlePrepareUpload opens a fresh session id, so nothing recorded earlier
\* refers to it.
LEMMA PrepareInv ==
    ASSUME IInv, NEW fs \in SUBSET Files, PrepareUpload(fs)
    PROVE  IInv'
  <1>1. TypeOK'
    <2> DEFINE ns == [files |-> fs, done |-> {}, pending |-> Cardinality(fs),
                      entries |-> {}]
    <2>1. Cardinality(fs) \in Nat
      BY FS_Subset, FS_CardinalityType, ConstantsAssumption
    <2>2. ns \in Session
      BY <2>1 DEF Session
    <2>3. lastSid + 1 \in Sid
      BY ConstantsAssumption DEF IInv, TypeOK, PrepareUpload, Sid
    <2>4. sess' \in [Sid -> Session]
      BY <2>2, <2>3 DEF IInv, TypeOK, PrepareUpload
    <2> QED
      BY <2>3, <2>4 DEF IInv, TypeOK, PrepareUpload, Sid
  <1>2. PendingExact'
    BY DEF IInv, PendingExact, PrepareUpload
  <1>3. SlotNotWedged'
    BY ConstantsAssumption DEF IInv, SlotNotWedged, TypeOK, PrepareUpload, Sid
  <1>4. Bookkeeping'
    <2> USE DEF IInv, TypeOK, PrepareUpload, Bookkeeping, SidIssued, Request
    <2>1. SidIssued'
      BY DEF Sid, InFlight, PC
    <2>2. FileDeclared'
      BY DEF FileDeclared, Uploading, Sid, InFlight, PC
    <2>3. NameSafe'
      BY DEF NameSafe
    <2>4. OwnerPastRecording'
      BY DEF OwnerPastRecording, Uploading, Session, Entry, InFlight, PC
    <2>5. ReceiptIssued'
      BY DEF ReceiptIssued, Sid
    <2>6. JournalingHasReceipt'
      BY DEF JournalingHasReceipt
    <2> QED
      BY <2>1, <2>2, <2>3, <2>4, <2>5, <2>6
  <1>5. EntriesSound'
    BY DEF IInv, TypeOK, EntriesSound, Bookkeeping, OwnerPastRecording,
       PrepareUpload, Request, Session, Entry
  <1>6. ReceiptsExact'
    <2> USE DEF IInv, TypeOK, PrepareUpload, ReceiptsExact, Bookkeeping,
       SidIssued, Request
    <2>1. ReceiptOfClosed'
      BY DEF ReceiptOfClosed, ReceiptIssued, OneFinalizer, Closing, Sid
    <2>2. OneFinalizer'
      BY DEF OneFinalizer, Closing, InFlight, PC
    <2>3. ReceiptOnce'
      BY DEF ReceiptOnce, OneFinalizer, ReceiptOfClosed, Closing
    <2>4. JournalBacked'
      BY DEF JournalBacked, JournalingHasReceipt
    <2> QED
      BY <2>1, <2>2, <2>3, <2>4
  <1> QED
    BY <1>1, <1>2, <1>3, <1>4, <1>5, <1>6 DEF IInv

\* A request moved to another state with an answer is still a request.
LEMMA RequestType ==
    ASSUME req \in [Requests -> Request], NEW r \in Requests, NEW npc \in PC,
           NEW st \in Status,
           req' = [req EXCEPT ![r].pc = npc, ![r].status = st]
    PROVE  req' \in [Requests -> Request]
  BY DEF Request

\* A request that leaves without settling anything preserves the invariant.
LEMMA EndedInv ==
    ASSUME IInv, NEW r \in Requests, req[r].pc \in Uploading,
           NEW st \in Status,
           req' = [req EXCEPT ![r].pc = "ended", ![r].status = st],
           UNCHANGED <<current, lastSid, sess, receipts, journal, proc>>
    PROVE  IInv'
  <1>1. TypeOK'
    BY DEF IInv, TypeOK, Request, PC
  <1>2. PendingExact' /\ SlotNotWedged'
    BY DEF IInv, PendingExact, SlotNotWedged
  <1>3. Bookkeeping'
    <2> USE DEF IInv, TypeOK, Bookkeeping, SidIssued, Request
    <2>1. SidIssued'
      BY DEF InFlight, PC
    <2>2. FileDeclared' /\ NameSafe'
      BY DEF FileDeclared, NameSafe, Uploading
    <2>3. OwnerPastRecording'
      BY DEF OwnerPastRecording, Uploading, Session, Entry
    <2>4. ReceiptIssued' /\ JournalingHasReceipt'
      BY DEF ReceiptIssued, JournalingHasReceipt
    <2> QED
      BY <2>1, <2>2, <2>3, <2>4
  <1>4. EntriesSound'
    BY DEF IInv, TypeOK, EntriesSound, Request, Session, Entry
  <1>5. ReceiptsExact'
    BY DEF IInv, TypeOK, Request, ReceiptsExact, ReceiptOfClosed,
       OneFinalizer,
           ReceiptOnce, JournalBacked, Closing
  <1> QED
    BY <1>1, <1>2, <1>3, <1>4, <1>5 DEF IInv

\* A request that settles its file in the session it validated against, with
\* or without an entry, preserves the invariant, whether or not it closes the
\* session.
LEMMA SettledInv ==
    ASSUME IInv, NEW r \in Requests, req[r].pc \in Uploading,
           NEW s \in Sid, req[r].sid = s, current = s, s <= lastSid,
           NEW f \in sess[s].files, req[r].file = f, f \notin sess[s].done,
           NEW E, E \subseteq {[file |-> f, by |-> r]}, E \subseteq Entry,
           E # {} => f \notin UnsafeFiles,
           NEW ns \in Session,
           ns.files = sess[s].files,
           ns.done = sess[s].done \cup {f},
           ns.entries = sess[s].entries \cup E,
           ns.done \subseteq ns.files,
           ns.pending = Cardinality(ns.files \ ns.done),
           sess' = [sess EXCEPT ![s] = ns],
           NEW npc \in {"finalizing", "ended"}, NEW st \in Status,
           req' = [req EXCEPT ![r].pc = npc, ![r].status = st],
           \/ npc = "finalizing" /\ current' = 0
           \/ npc = "ended" /\ current' = current /\ ns.files \ ns.done # {},
           UNCHANGED <<lastSid, receipts, journal, proc>>
    PROVE  IInv'
  <1>1. TypeOK'
    <2>1. sess' \in [Sid -> Session]
      BY DEF IInv, TypeOK
    <2>2. req' \in [Requests -> Request]
      <3>1. npc \in PC /\ req \in [Requests -> Request]
        BY DEF PC, IInv, TypeOK
      <3> QED
        BY <3>1, RequestType
    <2>3. current' \in 0..MaxSession
      BY ConstantsAssumption DEF IInv, TypeOK
    <2> QED
      BY <2>1, <2>2, <2>3 DEF IInv, TypeOK
  <1>2. PendingExact'
    BY DEF IInv, TypeOK, PendingExact
  <1>3. SlotNotWedged'
    BY DEF IInv, TypeOK, SlotNotWedged
  <1>4. Bookkeeping'
    <2> USE DEF IInv, TypeOK, Bookkeeping, SidIssued, Request
    <2>1. SidIssued'
      BY DEF InFlight, PC, Uploading, Sid
    <2>2. FileDeclared'
      BY DEF FileDeclared, Uploading
    <2>3. NameSafe'
      BY DEF NameSafe
    <2>4. OwnerPastRecording'
      BY DEF OwnerPastRecording, Uploading, Session, Entry
    <2>5. ReceiptIssued' /\ JournalingHasReceipt'
      BY DEF ReceiptIssued, JournalingHasReceipt
    <2> QED
      BY <2>1, <2>2, <2>3, <2>4, <2>5
  <1>5. EntriesSound'
    BY DEF IInv, TypeOK, EntriesSound, Request, Session, Entry
  <1>6. ReceiptsExact'
    <2> USE DEF IInv, TypeOK, ReceiptsExact, Request
    <2>1. ReceiptOfClosed'
      BY DEF ReceiptOfClosed, Sid
    <2>2. OneFinalizer'
      <3>1. \A q \in Requests : /\ req'[q].sid = req[q].sid
                                 /\ q # r => req'[q].pc = req[q].pc
        OBVIOUS
      <3>2. req'[r].pc = npc /\ s # 0
        BY DEF Sid
      <3>3. \A q \in Requests : (q # r /\ req[q].pc \in Closing) =>
                                   req[q].sid # s
        BY DEF OneFinalizer
      <3>4. CASE npc = "ended"
        BY <3>1, <3>2, <3>4 DEF OneFinalizer, Closing
      <3>5. CASE npc = "finalizing"
        <4>1. \A q \in Requests : req[q].pc \in Closing => req[q].sid # 0
          BY DEF Bookkeeping, SidIssued, InFlight, PC, Closing
        <4> QED
          BY <3>1, <3>2, <3>3, <3>5, <4>1 DEF OneFinalizer, Closing
      <3> QED
        BY <3>4, <3>5
    <2>3. ReceiptOnce'
      BY DEF ReceiptOnce, ReceiptOfClosed
    <2>4. JournalBacked'
      BY DEF JournalBacked
    <2> QED
      BY <2>1, <2>2, <2>3, <2>4
  <1> QED
    BY <1>1, <1>2, <1>3, <1>4, <1>5, <1>6 DEF IInv

\* handleUpload's second critical section.
LEMMA RecordEntryInv ==
    ASSUME IInv, NEW r \in Requests, RecordEntry(r)
    PROVE  IInv'
  <1> DEFINE s == req[r].sid
             f == req[r].file
             E == {[file |-> f, by |-> r]}
             Settles == current = s /\ f \notin sess[s].done
  <1>1. /\ req[r].pc = "written"
        /\ s \in Sid
        /\ s <= lastSid
        /\ f \in sess[s].files
        /\ f \notin UnsafeFiles
    BY ConstantsAssumption
       DEF IInv, TypeOK, Bookkeeping, SidIssued, FileDeclared, NameSafe,
          RecordEntry, InFlight,
           PC, Uploading, Sid
  <1>2. f \in Files
    BY <1>1 DEF IInv, TypeOK, Session
  <1>3. CASE ~Settles
    <2>1. /\ UNCHANGED <<current, lastSid, sess, receipts, journal, proc>>
          /\ \E st \in Status : req' = [req EXCEPT ![r].pc = "ended",
                                                 ![r].status = st]
      BY <1>1, <1>3 DEF RecordEntry, SameSession, Unsettled, Status
    <2> QED
      BY <2>1, <1>1, EndedInv DEF Uploading
  <1>4. CASE Settles
    <2> DEFINE ns == Settle(sess[s], f, E)
    <2>1. E \subseteq Entry
      BY <1>2 DEF Entry
    <2>2. /\ ns \in Session
          /\ ns.files = sess[s].files
          /\ ns.done = sess[s].done \cup {f}
          /\ ns.entries = sess[s].entries \cup E
          /\ ns.done \subseteq ns.files
          /\ ns.pending = Cardinality(ns.files \ ns.done)
          /\ ~Closes(sess[s]) => ns.files \ ns.done # {}
      BY <1>1, <1>4, <2>1, SettleLemma DEF IInv
    <2>3. /\ sess' = [sess EXCEPT ![s] = ns]
          /\ UNCHANGED <<lastSid, receipts, journal, proc>>
          /\ \/ /\ Closes(sess[s])
                /\ current' = 0
                /\ \E st \in Status : req' = [req EXCEPT ![r].pc = "finalizing",
                                                       ![r].status = st]
             \/ /\ ~Closes(sess[s])
                /\ current' = current
                /\ \E st \in Status : req' = [req EXCEPT ![r].pc = "ended",
                                                       ![r].status = st]
      BY <1>1, <1>4 DEF RecordEntry, SameSession, Unsettled, Status
    <2> HIDE DEF ns
    <2>4. CASE Closes(sess[s])
      <3>1. PICK st \in Status : req' = [req EXCEPT ![r].pc = "finalizing",
                                                   ![r].status = st]
        BY <2>3, <2>4
      <3> QED
        BY <1>1, <1>4, <2>1, <2>2, <2>3, <2>4, <3>1, SettledInv
           DEF Uploading
    <2>5. CASE ~Closes(sess[s])
      <3>1. PICK st \in Status : req' = [req EXCEPT ![r].pc = "ended",
                                                   ![r].status = st]
        BY <2>3, <2>5
      <3>2. current' = current /\ ns.files \ ns.done # {}
        BY <2>2, <2>3, <2>5
      <3> QED
        BY <1>1, <1>4, <2>1, <2>2, <2>3, <3>1, <3>2, SettledInv
           DEF Uploading
    <2> QED
      BY <2>4, <2>5
  <1> QED
    BY <1>3, <1>4

\* failFile.
LEMMA FailFileInv ==
    ASSUME IInv, NEW r \in Requests, FailFile(r)
    PROVE  IInv'
  <1> DEFINE s == req[r].sid
             f == req[r].file
             E == {}
             Settles == current = s /\ f \notin sess[s].done
  <1>1. /\ req[r].pc = "failing"
        /\ s \in Sid
        /\ s <= lastSid
        /\ f \in sess[s].files
    BY ConstantsAssumption
       DEF IInv, TypeOK, Bookkeeping, SidIssued, FileDeclared, FailFile,
          InFlight,
           PC, Uploading, Sid
  <1>2. f \in Files
    BY <1>1 DEF IInv, TypeOK, Session
  <1>3. CASE ~Settles
    <2>1. /\ UNCHANGED <<current, lastSid, sess, receipts, journal, proc>>
          /\ \E st \in Status : req' = [req EXCEPT ![r].pc = "ended",
                                                 ![r].status = st]
      BY <1>1, <1>3 DEF FailFile, SameSession, Unsettled, Status
    <2> QED
      BY <2>1, <1>1, EndedInv DEF Uploading
  <1>4. CASE Settles
    <2> DEFINE ns == Settle(sess[s], f, E)
    <2>1. E \subseteq Entry
      BY <1>2 DEF Entry
    <2>2. /\ ns \in Session
          /\ ns.files = sess[s].files
          /\ ns.done = sess[s].done \cup {f}
          /\ ns.entries = sess[s].entries \cup E
          /\ ns.done \subseteq ns.files
          /\ ns.pending = Cardinality(ns.files \ ns.done)
          /\ ~Closes(sess[s]) => ns.files \ ns.done # {}
      BY <1>1, <1>4, <2>1, SettleLemma DEF IInv
    <2>3. /\ sess' = [sess EXCEPT ![s] = ns]
          /\ UNCHANGED <<lastSid, receipts, journal, proc>>
          /\ \/ /\ Closes(sess[s])
                /\ current' = 0
                /\ \E st \in Status : req' = [req EXCEPT ![r].pc = "finalizing",
                                                       ![r].status = st]
             \/ /\ ~Closes(sess[s])
                /\ current' = current
                /\ \E st \in Status : req' = [req EXCEPT ![r].pc = "ended",
                                                       ![r].status = st]
      BY <1>1, <1>4 DEF FailFile, SameSession, Unsettled, Status
    <2> HIDE DEF ns
    <2>4. CASE Closes(sess[s])
      <3>1. PICK st \in Status : req' = [req EXCEPT ![r].pc = "finalizing",
                                                   ![r].status = st]
        BY <2>3, <2>4
      <3> QED
        BY <1>1, <1>4, <2>1, <2>2, <2>3, <2>4, <3>1, SettledInv
           DEF Uploading
    <2>5. CASE ~Closes(sess[s])
      <3>1. PICK st \in Status : req' = [req EXCEPT ![r].pc = "ended",
                                                   ![r].status = st]
        BY <2>3, <2>5
      <3>2. current' = current /\ ns.files \ ns.done # {}
        BY <2>2, <2>3, <2>5
      <3> QED
        BY <1>1, <1>4, <2>1, <2>2, <2>3, <3>1, <3>2, SettledInv
           DEF Uploading
    <2> QED
      BY <2>4, <2>5
  <1> QED
    BY <1>3, <1>4

\* Only the process state changes: the signal, or a stuttering step.
LEMMA ProcInv ==
    ASSUME IInv, UNCHANGED <<current, lastSid, sess, req, receipts, journal>>,
           proc' \in {"running", "signalled", "exited"}
    PROVE  IInv'
  <1>1. TypeOK' /\ PendingExact' /\ SlotNotWedged'
    BY DEF IInv, TypeOK, PendingExact, SlotNotWedged
  <1>2. Bookkeeping'
    BY DEF IInv, Bookkeeping, SidIssued, FileDeclared, NameSafe,
           OwnerPastRecording, ReceiptIssued, JournalingHasReceipt
  <1>3. EntriesSound' /\ ReceiptsExact'
    BY DEF IInv, EntriesSound, ReceiptsExact, ReceiptOfClosed, OneFinalizer,
           ReceiptOnce, JournalBacked
  <1> QED
    BY <1>1, <1>2, <1>3 DEF IInv

\* Every step of the receiver preserves the inductive invariant.
LEMMA NextInv == IInv /\ [Next]_vars => IInv'
  <1> SUFFICES ASSUME IInv, [Next]_vars PROVE IInv'
    OBVIOUS
  <1>1. ASSUME NEW fs \in SUBSET Files, PrepareUpload(fs) PROVE IInv'
    BY <1>1, PrepareInv
  <1>2. ASSUME NEW r \in Requests, UploadStep(r) PROVE IInv'
    BY <1>2, UploadValidateInv, UploadRefuseInv, CancelInv DEF UploadStep
  <1>3. ASSUME NEW r \in Requests, BodyEnds(r) \/ HandlerStep(r) PROVE IInv'
    BY <1>3, WriteBlobOkInv, WriteBlobFailInv, RecordEntryInv, FailFileInv,
       FinalizeEmptyInv, WriteReceiptInv, AppendLogInv DEF BodyEnds, HandlerStep
  <1>4. CASE Signal
    BY <1>4, ProcInv DEF Signal
  <1>5. CASE Exit
    BY <1>5, ExitInv
  <1>6. CASE UNCHANGED vars
    BY <1>6, ProcInv DEF vars, IInv, TypeOK
  <1> QED
    BY <1>1, <1>2, <1>3, <1>4, <1>5, <1>6 DEF Next

\* The inductive invariant holds in every reachable state.
THEOREM InvariantHolds == Spec => []IInv
  BY InitInv, NextInv, PTL DEF Spec

\* The receiver's state stays well-typed; in particular pending never goes
\* negative, whichever uploads of one file race, fail or repeat.
THEOREM TypeCorrect == Spec => []TypeOK
  <1>1. IInv => TypeOK
    BY DEF IInv
  <1> QED
    BY <1>1, InvariantHolds, PTL

\* pending counts exactly the unsettled files (handleUpload, failFile).
THEOREM PendingIsExact == Spec => []PendingExact
  <1>1. IInv => PendingExact
    BY DEF IInv
  <1> QED
    BY <1>1, InvariantHolds, PTL

\* An occupied session slot can always be released by the remaining uploads
\* (failFile).
THEOREM SlotIsNotWedged == Spec => []SlotNotWedged
  <1>1. IInv => SlotNotWedged
    BY DEF IInv
  <1> QED
    BY <1>1, InvariantHolds, PTL

\* No upload is recorded in a session, or for a file, other than the one it
\* was validated against, and no file is recorded twice (handleUpload).
THEOREM EntriesAreSound == Spec => []EntriesSound
  <1>1. IInv => EntriesSound
    BY DEF IInv
  <1> QED
    BY <1>1, InvariantHolds, PTL

\* Each closed session is finalized by one request, and its receipt holds
\* exactly the entries received (finalize).
THEOREM ReceiptsAreExact == Spec => []ReceiptsExact
  <1>1. IInv => ReceiptsExact
    BY DEF IInv
  <1> QED
    BY <1>1, InvariantHolds, PTL

\* No step changes a session that has left the slot, which is why finalize
\* may read it without the mutex.
THEOREM ClosedSessionIsFrozen == Spec => ClosedSessionFrozen
  <1> DEFINE Frozen == \A s \in Sid : (s <= lastSid /\ s # current) =>
                                        sess'[s] = sess[s]
  <1>1. IInv /\ [Next]_vars => [Frozen]_vars
    <2> SUFFICES ASSUME IInv, Next PROVE Frozen
      BY DEF vars
    <2>1. ASSUME NEW fs \in SUBSET Files, PrepareUpload(fs) PROVE Frozen
      BY <2>1 DEF IInv, TypeOK, PrepareUpload, Sid
    <2>2. ASSUME NEW r \in Requests, UploadStep(r) PROVE Frozen
      BY <2>2 DEF UploadStep, UploadValidate, UploadRefuse, Cancel
    <2>3. ASSUME NEW r \in Requests, RecordEntry(r) PROVE Frozen
      BY <2>3 DEF IInv, TypeOK, RecordEntry
    <2>4. ASSUME NEW r \in Requests, FailFile(r) PROVE Frozen
      BY <2>4 DEF IInv, TypeOK, FailFile, Unsettled, SameSession
    <2>5. ASSUME NEW r \in Requests, BodyEnds(r) \/ HandlerStep(r) PROVE Frozen
      BY <2>3, <2>4, <2>5 DEF BodyEnds, HandlerStep, WriteBlobOk, WriteBlobFail,
         FinalizeEmpty, WriteReceipt, AppendLog
    <2>6. CASE Signal \/ Exit
      BY <2>6 DEF Signal, Exit
    <2> QED
      BY <2>1, <2>2, <2>5, <2>6 DEF Next
  <1> QED
    BY <1>1, InvariantHolds, PTL DEF Spec, ClosedSessionFrozen
=============================================================================
