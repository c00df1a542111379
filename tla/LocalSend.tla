------------------------------ MODULE LocalSend ------------------------------
(***************************************************************************)
(* The LocalSend receiver of `cutting-garden serve`                        *)
(* (internal/serve/localsend.go, internal/serve/serve.go).                 *)
(*                                                                         *)
(* net/http runs every request in its own goroutine.  The server keeps at  *)
(* most one transfer session, guarded by a mutex; an upload holds the      *)
(* mutex to validate itself, drops it while the body streams into the blob *)
(* store, and takes it again to record its entry.  A receipt is written    *)
(* outside the mutex by whichever request closed the session.  Each        *)
(* critical section is one action here, and so is each stretch of work     *)
(* between two of them.                                                    *)
(*                                                                         *)
(* Abstractions.  A session id and the upload tokens minted for it are     *)
(* unguessable, so a request is taken to present the token that belongs to *)
(* the (session, file) pair it names.  A received body is identified with  *)
(* the request that carried it.  Entry order is dropped: the receipt       *)
(* writer sorts entries by path.                                           *)
(***************************************************************************)
EXTENDS Naturals, FiniteSets

CONSTANTS
    Requests,     \* HTTP request goroutines; each serves one upload or cancel
    Files,        \* file ids a sender may declare
    UnsafeFiles,  \* file ids whose fileName sanitizeFileName refuses
    MaxSession    \* bound: how many prepare-upload requests are granted

ASSUME ConstantsAssumption ==
    /\ IsFiniteSet(Files)
    /\ UnsafeFiles \subseteq Files
    /\ MaxSession \in Nat

VARIABLES
    current,   \* s.current: id of the active session, 0 when nil
    lastSid,   \* number of sessions created so far; ids are 1..lastSid
    sess,      \* the session structs
    req,       \* per-request goroutine state
    receipts,  \* receipt blobs written: [sid, entries]
    journal,   \* sids whose receipt has a line in captures.log
    proc       \* "running", "signalled" (context cancelled) or "exited"

vars == <<current, lastSid, sess, req, receipts, journal, proc>>

Sid == 1..MaxSession

Entry == [file : Files, by : Requests]

Session == [files : SUBSET Files, done : SUBSET Files, pending : Nat,
            entries : SUBSET Entry]

NoSession == [files |-> {}, done |-> {}, pending |-> 0, entries |-> {}]

\* Where a request goroutine is: "validated" streams its body, "failing" is
\* about to call failFile, "written" is about to record its entry,
\* "finalizing" is inside finalize before the receipt write and "journaling"
\* after it.  "ended" has answered; "killed" died with the process.
PC == {"idle", "validated", "failing", "written", "finalizing", "journaling",
       "ended", "killed"}

InFlight == PC \ {"idle", "ended", "killed"}

\* The HTTP answer: "ok" is 200, "refused" any 4xx/5xx.
Status == {"none", "ok", "refused"}

Request == [pc : PC, sid : 0..MaxSession, file : Files \cup {"none"},
            status : Status]

Idle == [pc |-> "idle", sid |-> 0, file |-> "none", status |-> "none"]

TypeOK ==
    /\ current \in 0..MaxSession
    /\ lastSid \in 0..MaxSession
    /\ sess \in [Sid -> Session]
    /\ req \in [Requests -> Request]
    /\ receipts \subseteq [sid : Sid, entries : SUBSET Entry]
    /\ journal \subseteq Sid
    /\ proc \in {"running", "signalled", "exited"}

Init ==
    /\ current = 0
    /\ lastSid = 0
    /\ sess = [s \in Sid |-> NoSession]
    /\ req = [r \in Requests |-> Idle]
    /\ receipts = {}
    /\ journal = {}
    /\ proc = "running"

-----------------------------------------------------------------------------
(* handlePrepareUpload: one session at a time.  An empty file map is        *)
(* answered 204 and a live session 409; neither changes state.              *)

PrepareUpload(fs) ==
    /\ proc # "exited"
    /\ fs # {}
    /\ current = 0
    /\ lastSid < MaxSession
    /\ lastSid' = lastSid + 1
    /\ current' = lastSid + 1
    /\ sess' = [sess EXCEPT ![lastSid + 1] =
                   [files |-> fs, done |-> {}, pending |-> Cardinality(fs),
                    entries |-> {}]]
    /\ UNCHANGED <<req, receipts, journal, proc>>

-----------------------------------------------------------------------------
(* handleUpload.                                                            *)

Accepts(s, f) == current = s /\ f \in sess[s].files /\ f \notin sess[s].done

\* First critical section: the session, the file and its done flag are read
\* under the mutex, which is then dropped.  A refused name goes straight to
\* failFile.
UploadValidate(r, s, f) ==
    /\ proc # "exited"
    /\ req[r].pc = "idle"
    /\ Accepts(s, f)
    /\ req' = [req EXCEPT ![r] =
                  [pc |-> IF f \in UnsafeFiles THEN "failing" ELSE "validated",
                   sid |-> s, file |-> f, status |-> "none"]]
    /\ UNCHANGED <<current, lastSid, sess, receipts, journal, proc>>

\* Unknown session (403), unknown file (403) or file already settled (409).
UploadRefuse(r, s, f) ==
    /\ proc # "exited"
    /\ req[r].pc = "idle"
    /\ ~Accepts(s, f)
    /\ req' = [req EXCEPT ![r] = [pc |-> "ended", sid |-> s, file |-> f,
                                  status |-> "refused"]]
    /\ UNCHANGED <<current, lastSid, sess, receipts, journal, proc>>

\* writeBlob returned: the body is durable as a blob.  A cancelled context
\* makes the next Read of the body fail, but a body already read to its end
\* still commits.
WriteBlobOk(r) ==
    /\ proc # "exited"
    /\ req[r].pc = "validated"
    /\ req' = [req EXCEPT ![r].pc = "written"]
    /\ UNCHANGED <<current, lastSid, sess, receipts, journal, proc>>

\* writeBlob failed: the sender dropped the connection, the store refused
\* the write, or the server's context was cancelled.
WriteBlobFail(r) ==
    /\ proc # "exited"
    /\ req[r].pc = "validated"
    /\ req' = [req EXCEPT ![r].pc = "failing"]
    /\ UNCHANGED <<current, lastSid, sess, receipts, journal, proc>>

\* The session with file f settled; e is the entry recorded for it, if any.
Settle(ss, f, e) ==
    [files |-> ss.files, done |-> ss.done \cup {f},
     pending |-> ss.pending - 1, entries |-> ss.entries \cup e]

\* Settling one more file leaves pending at 0.
Closes(ss) == ss.pending = 1

\* The re-check after the mutex was dropped: s.current is still the session
\* this request validated against.
SameSessionNonNil(s) == current # 0

SameSession(s) == current = s

\* The file may still be settled by this request.
UnsettledUnchecked(s, f) == SameSession(s)

UnsettledAnySession(s, f) == f \notin sess[s].done

UnsettledSafe(s, f) ==
    SameSession(s) /\ f \notin sess[current].done /\ f \notin UnsafeFiles

Unsettled(s, f) == SameSession(s) /\ f \notin sess[current].done

\* Second critical section of handleUpload.  The session may be gone, or
\* another upload of the same file may have settled it first; otherwise the
\* entry is appended and, when this was the last pending file, the session
\* leaves s.current and this request goes on to finalize it.
RecordEntry(r) ==
    LET s == req[r].sid
        f == req[r].file
    IN  /\ proc # "exited"
        /\ req[r].pc = "written"
        /\ \/ /\ ~SameSession(s)
              /\ req' = [req EXCEPT ![r].pc = "ended", ![r].status = "refused"]
              /\ UNCHANGED <<current, sess>>
           \/ /\ SameSession(s)
              /\ f \in sess[current].done
              /\ req' = [req EXCEPT ![r].pc = "ended", ![r].status = "ok"]
              /\ UNCHANGED <<current, sess>>
           \/ /\ SameSession(s)
              /\ f \notin sess[current].done
              /\ sess' = [sess EXCEPT ![current] =
                             Settle(@, f, {[file |-> f, by |-> r]})]
              /\ IF Closes(sess[current])
                 THEN /\ current' = 0
                      /\ req' = [req EXCEPT ![r].pc = "finalizing",
                                            ![r].status = "ok"]
                 ELSE /\ req' = [req EXCEPT ![r].pc = "ended",
                                            ![r].status = "ok"]
                      /\ UNCHANGED current
        /\ UNCHANGED <<lastSid, receipts, journal, proc>>

\* failFile: settle the file without an entry; the last one closes the
\* session, which this request then finalizes.
FailFile(r) ==
    LET s == req[r].sid
        f == req[r].file
    IN  /\ proc # "exited"
        /\ req[r].pc = "failing"
        /\ IF Unsettled(s, f)
           THEN sess' = [sess EXCEPT ![s] = Settle(@, f, {})]
           ELSE UNCHANGED sess
        /\ IF Unsettled(s, f) /\ Closes(sess[s])
           THEN /\ current' = 0
                /\ req' = [req EXCEPT ![r].pc = "finalizing",
                                      ![r].status = "refused"]
           ELSE /\ req' = [req EXCEPT ![r].pc = "ended",
                                      ![r].status = "refused"]
                /\ UNCHANGED current
        /\ UNCHANGED <<lastSid, receipts, journal, proc>>

-----------------------------------------------------------------------------
(* handleCancel: with or without a session id.  A cancel that names another *)
(* session than the active one answers 200 and changes nothing.             *)

Cancel(r, s) ==
    /\ proc # "exited"
    /\ req[r].pc = "idle"
    /\ \/ /\ current # 0
          /\ s \in {0, current}
          /\ req' = [req EXCEPT ![r] = [pc |-> "finalizing", sid |-> current,
                                        file |-> "none", status |-> "ok"]]
          /\ current' = 0
       \/ /\ \/ current = 0
             \/ s \notin {0, current}
          /\ req' = [req EXCEPT ![r] = [pc |-> "ended", sid |-> s,
                                        file |-> "none", status |-> "ok"]]
          /\ UNCHANGED current
    /\ UNCHANGED <<lastSid, sess, receipts, journal, proc>>

-----------------------------------------------------------------------------
(* finalize, outside the mutex: an empty session writes nothing; a failed   *)
(* receipt write is logged and given up; a written receipt is journaled,    *)
(* best-effort.                                                             *)

FinalizeEmpty(r) ==
    /\ proc # "exited"
    /\ req[r].pc = "finalizing"
    /\ sess[req[r].sid].entries = {}
    /\ req' = [req EXCEPT ![r].pc = "ended"]
    /\ UNCHANGED <<current, lastSid, sess, receipts, journal, proc>>

\* finalize returns early when the receipt write fails.
JournalAnyway == "journaling"

AfterReceiptError == "ended"

WriteReceipt(r) ==
    LET s == req[r].sid
    IN  /\ proc # "exited"
        /\ req[r].pc = "finalizing"
        /\ sess[s].entries # {}
        /\ \/ /\ receipts' = receipts \cup
                                {[sid |-> s, entries |-> sess[s].entries]}
              /\ req' = [req EXCEPT ![r].pc = "journaling"]
           \/ /\ req' = [req EXCEPT ![r].pc = AfterReceiptError]
              /\ UNCHANGED receipts
        /\ UNCHANGED <<current, lastSid, sess, journal, proc>>

AppendLog(r) ==
    /\ proc # "exited"
    /\ req[r].pc = "journaling"
    /\ req' = [req EXCEPT ![r].pc = "ended"]
    /\ \/ journal' = journal \cup {req[r].sid}
       \/ UNCHANGED journal
    /\ UNCHANGED <<current, lastSid, sess, receipts, proc>>

-----------------------------------------------------------------------------
(* Serve.Run's end of life.  SIGINT/SIGTERM/SIGHUP cancel the context; the  *)
(* watcher goroutine calls Shutdown, which closes the listener at once, and *)
(* http.Server.Serve then returns ErrServerClosed without waiting for the   *)
(* handlers, so Run returns and the process exits under them.  Until then   *)
(* the listener may still hand over a request.                              *)

Signal ==
    /\ proc = "running"
    /\ proc' = "signalled"
    /\ UNCHANGED <<current, lastSid, sess, req, receipts, journal>>

Exit ==
    /\ proc = "signalled"
    /\ proc' = "exited"
    /\ req' = [r \in Requests |->
                  IF req[r].pc \in InFlight
                  THEN [req[r] EXCEPT !.pc = "killed"]
                  ELSE req[r]]
    /\ UNCHANGED <<current, lastSid, sess, receipts, journal>>

-----------------------------------------------------------------------------

UploadStep(r) ==
    \/ \E s \in Sid, f \in Files : UploadValidate(r, s, f) \/ UploadRefuse(r, s, f)
    \/ \E s \in 0..MaxSession : Cancel(r, s)

BodyEnds(r) == WriteBlobOk(r) \/ WriteBlobFail(r)

HandlerStep(r) ==
    \/ RecordEntry(r)
    \/ FailFile(r)
    \/ FinalizeEmpty(r)
    \/ WriteReceipt(r)
    \/ AppendLog(r)

Next ==
    \/ \E fs \in SUBSET Files : PrepareUpload(fs)
    \/ \E r \in Requests : UploadStep(r) \/ BodyEnds(r) \/ HandlerStep(r)
    \/ Signal
    \/ Exit

Spec == Init /\ [][Next]_vars

\* Go's scheduler runs every ready goroutine.  Nothing makes a body end: the
\* http.Server has no ReadTimeout, so a sender that neither sends nor hangs up
\* keeps writeBlob waiting.
Fairness == \A r \in Requests : WF_vars(HandlerStep(r))

FairSpec == Spec /\ Fairness

-----------------------------------------------------------------------------
(* Safety.                                                                  *)

\* sess.pending counts exactly the declared files not settled yet, whatever
\* mix of racing, failing and repeated uploads settled the others
\* (localsend.go: pending is decremented in handleUpload and in failFile).
PendingExact ==
    \A s \in Sid : /\ sess[s].done \subseteq sess[s].files
                   /\ sess[s].pending =
                        Cardinality(sess[s].files \ sess[s].done)

\* The slot is never wedged: the active session still has an unsettled file,
\* so some upload (or its failure) can close it (failFile's comment; FDR
\* 0011, "a failed transfer never wedges the receiver").
SlotNotWedged == current # 0 => sess[current].files \ sess[current].done # {}

\* The entries of a session come from uploads that named that very session
\* and file, one entry per file.  An upload that outlives its session never
\* lands in the next one, though it re-reads s.current after streaming.
EntriesSound ==
    \A s \in Sid : \A e \in sess[s].entries :
        /\ req[e.by].sid = s
        /\ req[e.by].file = e.file
        /\ e.file \in sess[s].done
        /\ e.file \notin UnsafeFiles
        /\ \A d \in sess[s].entries : d.file = e.file => d = e

\* Receipts are written for closed sessions and say what the session holds.
ReceiptOfClosed ==
    \A x \in receipts : /\ x.sid # current
                         /\ x.entries = sess[x.sid].entries
                         /\ x.entries # {}

Closing == {"finalizing", "journaling"}

OneFinalizer ==
    \A r \in Requests : req[r].pc \in Closing =>
        /\ req[r].sid # current
        /\ \A q \in Requests : (req[q].pc \in Closing /\ q # r) =>
              req[q].sid # req[r].sid

ReceiptOnce ==
    \A r \in Requests : req[r].pc = "finalizing" =>
        \A x \in receipts : x.sid # req[r].sid

JournalBacked == \A s \in journal : \E x \in receipts : x.sid = s

\* A session is finalized by one request, after it left the slot; its one
\* receipt holds exactly the entries received (FDR 0011 "exactly the files
\* received") and nothing is journaled that has no receipt.
ReceiptsExact ==
    /\ ReceiptOfClosed
    /\ OneFinalizer
    /\ ReceiptOnce
    /\ JournalBacked

\* A closed session is frozen: finalize reads sess.entries without the
\* mutex, which is only sound because no handler writes to a session that
\* has left s.current.
ClosedSessionFrozen ==
    [][\A s \in Sid : (s <= lastSid /\ s # current) => sess'[s] = sess[s]]_vars

Uploads(r, s, f) == req[r].pc \in InFlight /\ req[r].sid = s /\ req[r].file = f

\* Every unsettled file of the active session s is being uploaded.
Attempted(s) ==
    /\ current = s
    /\ \A f \in sess[s].files \ sess[s].done : \E r \in Requests : Uploads(r, s, f)

\* One of them only by senders whose bodies are still to end.
Streaming(s) ==
    /\ Attempted(s)
    /\ \E f \in sess[s].files \ sess[s].done : \A r \in Requests :
          Uploads(r, s, f) => req[r].pc = "validated"

\* The slot is released and the session's requests, finalize included, are
\* through with it.
Settled(s) ==
    /\ current # s
    /\ \A r \in Requests : req[r].sid = s => req[r].pc \in PC \ (InFlight \ {"validated"})

\* Once every file of a session has been attempted the session settles,
\* whichever uploads fail or race (failFile: "so the single-session slot is
\* released"), unless the process exits.  The one thing that can keep the slot
\* taken is a body that never ends.
AttemptedSessionSettles ==
    \A s \in Sid :
        [](Attempted(s) => <>(proc = "exited" \/ Settled(s) \/ []Streaming(s)))

-----------------------------------------------------------------------------
(* What the comments and FDR 0011 say and the code does not do.             *)

\* handleUpload answers 200 when it finds its file settled, "keep the first":
\* an upload answered 200 then has its file in the session's entries.
AckedFileIsKept ==
    \A r \in Requests :
        (req[r].pc = "ended" /\ req[r].status = "ok" /\ req[r].file # "none")
            => \E e \in sess[req[r].sid].entries : e.file = req[r].file

\* FDR 0011: a session whose process is signalled after some files arrived
\* still gets its receipt.
SignalledSessionHasReceipt ==
    (proc = "exited" /\ current # 0 /\ sess[current].entries # {})
        => \E x \in receipts : x.sid = current
=============================================================================
