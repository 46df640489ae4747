---------------------------- MODULE AsyncCrypto ----------------------------
(***************************************************************************)
(* The asynchronous side of src/udap/crypto_async.cpp: the iwp_call_async_*  *)
(* entry points queue a job on the worker threadpool; the job function     *)
(* runs the crypto on a worker thread and then either calls the request's  *)
(* hook right there, or queues an inform_* job on the logic thread, which  *)
(* calls the hook.  Frame jobs also run the session frame codec            *)
(* (iwp_encrypt_frame / iwp_decrypt_frame) and delete the frame after its  *)
(* hook.                                                                   *)
(*                                                                         *)
(* A job is one request object (iwp_async_intro, iwp_async_frame, ...).    *)
(* The hook is the link session's callback: it runs between a thread's     *)
(* entering it and returning from it, so two hooks running at once are     *)
(* visible as two threads inside a hook.                                   *)
(*                                                                         *)
(* Frame crypto is symbolic as in IwpHandshake: a body is [pt, ks] where   *)
(* applying keystream <<K, n>> toggles it in ks, and the keyed hash        *)
(* MDS(n + x, S) is the record [key, n, body].                             *)
(***************************************************************************)
EXTENDS Naturals, Sequences, FiniteSets

CONSTANTS
  Workers,   \* threads of the udap_threadpool
  Logic,     \* the udap_logic thread
  Jobs,      \* request objects handed to iwp_call_async_*
  Kind,      \* Kind[j]: which iwp_call_async_* j is passed to
  Keys,      \* session keys
  Nonces,    \* values crypto->randbytes may give
  Plain,     \* frame plaintexts
  Flip,      \* a key no session holds: the keystream of a bit flip
  NoJob

Kinds == {"keygen", "gen_intro", "verify_intro", "gen_introack",
          "verify_introack", "gen_session_start", "verify_session_start",
          "encrypt", "decrypt"}

Threads == Workers \cup {Logic}

ASSUME /\ Kind \in [Jobs -> Kinds]
       /\ Logic \notin Workers
       /\ NoJob \notin Jobs
       /\ Flip \notin Keys

\* Jobs whose request is an iwp_async_frame.
FrameJobs == {j \in Jobs : Kind[j] \in {"encrypt", "decrypt"}}

VARIABLES
  st,        \* st[j]: "new", "pool" (queued on the worker pool), "running",
             \* "logic" (inform job queued on the logic thread), "done"
  pool,      \* the worker pool's job queue
  lq,        \* the logic thread's job queue
  busy,      \* busy[th]: the job whose hook thread th is running, or NoJob
  hooks,     \* hooks[j]: how many times j's hook has been called
  freed,     \* freed[j]: the frame object was deleted
  frame,     \* frame[j]: the frame buffer [mac, n, body] of a frame job
  success,   \* success[j]: frame->success
  key,       \* key[j]: frame->sessionkey
  wire       \* wire[j]: the buffer a decrypt job was handed (history)

vars == <<st, pool, lq, busy, hooks, freed, frame, success, key, wire>>

-----------------------------------------------------------------------------
(* Symbolic crypto                                                         *)

Toggle(S, x) == IF x \in S THEN S \ {x} ELSE S \cup {x}

\* crypto->xchacha20(buf, K, n) over a body.
XChaCha(body, k, n) == [body EXCEPT !.ks = Toggle(@, <<k, n>>)]

\* crypto->hmac(h, nonce + body, K).
MDS(k, n, body) == [key |-> k, n |-> n, body |-> body]

Bodies == [pt : Plain, ks : SUBSET ((Keys \cup {Flip}) \X Nonces)]
Frames == [mac : [key : Keys \cup {Flip}, n : Nonces, body : Bodies] \cup {NoJob},
           n : Nonces \cup {NoJob}, body : Bodies]

\* Mutant: the MAC taken over the plaintext, before encrypting.
IwpEncryptFrameMacFirst(f, k, n) ==
  [mac |-> MDS(k, n, f.body), n |-> n, body |-> XChaCha(f.body, k, n)]

\* iwp_encrypt_frame with the nonce randbytes gave: encrypt the body, then
\* MAC nonce and ciphertext, MAC first in the buffer.
IwpEncryptFrame(f, k, n) ==
  LET x == XChaCha(f.body, k, n)
  IN  [mac |-> MDS(k, n, x), n |-> n, body |-> x]

\* Mutant: the comparison inverted (memcmp(...) != 0).
IwpDecryptFrameInverted(f, k) ==
  [success |-> MDS(k, f.n, f.body) # f.mac,
   frame   |-> [f EXCEPT !.body = XChaCha(f.body, k, f.n)]]

\* iwp_decrypt_frame: success is the MAC comparison; the body is decrypted
\* in place whatever the comparison gave.
IwpDecryptFrame(f, k) ==
  [success |-> MDS(k, f.n, f.body) = f.mac,
   frame   |-> [f EXCEPT !.body = XChaCha(f.body, k, f.n)]]

\* DecryptFrame as spec 4.1 step 4 states it: decrypt only on a match.
SpecDecryptFrame(f, k) ==
  IF MDS(k, f.n, f.body) = f.mac
  THEN [success |-> TRUE, frame |-> [f EXCEPT !.body = XChaCha(f.body, k, f.n)]]
  ELSE [success |-> FALSE, frame |-> f]

\* What a decrypt job can be handed: a frame a peer encrypted under k0
\* with nonce n0, as sent or altered in one field on the way.
Received(m, k0, n0) ==
  LET f == IwpEncryptFrame([mac |-> NoJob, n |-> NoJob, body |-> [pt |-> m, ks |-> {}]], k0, n0)
  IN  {f,
       [f EXCEPT !.body = XChaCha(@, Flip, n0)],
       [f EXCEPT !.mac = MDS(Flip, n0, f.body)]}
      \cup {[f EXCEPT !.n = n1] : n1 \in Nonces \ {n0}}

-----------------------------------------------------------------------------

\* Every buffer a decrypt job may be handed.
Wire == UNION {Received(m, k0, n0) : m \in Plain, k0 \in Keys, n0 \in Nonces}

\* A frame job's buffer before its codec ran: a plaintext to encrypt, or
\* the received buffer to decrypt.
Input == [j \in FrameJobs |->
            IF Kind[j] = "decrypt" THEN Wire
            ELSE {[mac |-> NoJob, n |-> NoJob, body |-> [pt |-> m, ks |-> {}]] : m \in Plain}]

TypeOK ==
  /\ st \in [Jobs -> {"new", "pool", "running", "logic", "done"}]
  /\ pool \in Seq(Jobs) /\ lq \in Seq(Jobs)
  /\ busy \in [Threads -> Jobs \cup {NoJob}]
  /\ hooks \in [Jobs -> 0..2]
  /\ freed \in [Jobs -> BOOLEAN]
  /\ frame \in [FrameJobs -> Frames]
  /\ key \in [FrameJobs -> Keys]
  /\ wire \in [FrameJobs -> Frames]
  /\ success \in [FrameJobs -> BOOLEAN]
  /\ \A j \in Jobs : st[j] = "running" <=> \E th \in Threads : busy[th] = j

\* The link session fills the requests before it calls iwp_call_async_*.
Init ==
  /\ st = [j \in Jobs |-> "new"]
  /\ pool = <<>> /\ lq = <<>>
  /\ busy = [th \in Threads |-> NoJob]
  /\ hooks = [j \in Jobs |-> 0]
  /\ freed = [j \in Jobs |-> FALSE]
  /\ success = [j \in FrameJobs |-> FALSE]
  /\ key \in [FrameJobs -> Keys]
  /\ frame \in [FrameJobs -> UNION {Input[j] : j \in FrameJobs}]
  /\ \A j \in FrameJobs : frame[j] \in Input[j]
  /\ wire = frame

-----------------------------------------------------------------------------
(* Actions                                                                 *)

\* iwp_call_async_*: req->iwp = iwp, then udap_threadpool_queue_job with
\* the job function for the request's kind.
CallAsync(j) ==
  /\ st[j] = "new"
  /\ st' = [st EXCEPT ![j] = "pool"]
  /\ pool' = Append(pool, j)
  /\ UNCHANGED <<lq, busy, hooks, freed, frame, success, key, wire>>

\* Thread th calls the hook of request j.
EnterHook(th, j) ==
  /\ busy' = [busy EXCEPT ![th] = j]
  /\ hooks' = [hooks EXCEPT ![j] = @ + 1]
  /\ st' = [st EXCEPT ![j] = "running"]

\* The job functions that end in req->hook(req) on the worker thread (the
\* udap_logic_queue_job lines after them are commented out).
HookOnWorker == {"keygen", "gen_intro", "verify_introack", "gen_introack",
                 "gen_session_start", "verify_session_start"}

\* Mutant: the commented-out udap_logic_queue_job put back while the direct
\* hook call stays.
WorkerHookAlsoInform(w) ==
  /\ busy[w] = NoJob /\ pool # <<>>
  /\ LET j == Head(pool) IN
       /\ Kind[j] \in HookOnWorker
       /\ pool' = Tail(pool)
       /\ lq' = Append(lq, j)
       /\ EnterHook(w, j)
  /\ UNCHANGED <<freed, frame, success, key, wire>>

\* An idle worker takes the job at the head of the pool queue; keygen,
\* gen_intro, verify_introack, gen_introack, gen_session_start or
\* verify_session_start does its crypto and calls the hook right there.
WorkerHook(w) ==
  /\ busy[w] = NoJob /\ pool # <<>>
  /\ LET j == Head(pool) IN
       /\ Kind[j] \in HookOnWorker
       /\ pool' = Tail(pool)
       /\ EnterHook(w, j)
  /\ UNCHANGED <<lq, freed, frame, success, key, wire>>

\* Mutant: the result is never handed to the logic thread.
VerifyIntroNoInform(w) ==
  /\ busy[w] = NoJob /\ pool # <<>>
  /\ LET j == Head(pool) IN
       /\ Kind[j] = "verify_intro"
       /\ pool' = Tail(pool)
       /\ st' = [st EXCEPT ![j] = "logic"]
  /\ UNCHANGED <<lq, busy, hooks, freed, frame, success, key, wire>>

\* verify_intro: the crypto, then udap_logic_queue_job(logic, inform_intro).
VerifyIntro(w) ==
  /\ busy[w] = NoJob /\ pool # <<>>
  /\ LET j == Head(pool) IN
       /\ Kind[j] = "verify_intro"
       /\ pool' = Tail(pool)
       /\ lq' = Append(lq, j)
       /\ st' = [st EXCEPT ![j] = "logic"]
  /\ UNCHANGED <<busy, hooks, freed, frame, success, key, wire>>

\* hmac_then_decrypt: iwp_decrypt_frame, then queue inform_frame_done on
\* the logic thread.
HmacThenDecrypt(w) ==
  /\ busy[w] = NoJob /\ pool # <<>>
  /\ LET j == Head(pool)
         r == IwpDecryptFrame(frame[j], key[j])
     IN  /\ Kind[j] = "decrypt"
         /\ pool' = Tail(pool)
         /\ frame' = [frame EXCEPT ![j] = r.frame]
         /\ success' = [success EXCEPT ![j] = r.success]
         /\ lq' = Append(lq, j)
         /\ st' = [st EXCEPT ![j] = "logic"]
  /\ UNCHANGED <<busy, hooks, freed, key, wire>>

\* encrypt_then_hmac: iwp_encrypt_frame with the nonce randbytes gives,
\* then frame->hook(frame) "RIGHT HERE" on the worker.
EncryptThenHmac(w) ==
  /\ busy[w] = NoJob /\ pool # <<>>
  /\ LET j == Head(pool) IN
       /\ Kind[j] = "encrypt"
       /\ pool' = Tail(pool)
       /\ \E n \in Nonces : frame' = [frame EXCEPT ![j] = IwpEncryptFrame(@, key[j], n)]
       /\ EnterHook(w, j)
  /\ UNCHANGED <<lq, freed, success, key, wire>>

\* The logic thread runs the inform job at the head of its queue
\* (inform_intro, inform_frame_done): it calls the hook.
LogicInform ==
  /\ busy[Logic] = NoJob /\ lq # <<>>
  /\ lq' = Tail(lq)
  /\ EnterHook(Logic, Head(lq))
  /\ UNCHANGED <<pool, freed, frame, success, key, wire>>

\* Mutant: the thread is not marked free after the hook.
HookReturnKeepBusy(th) ==
  /\ busy[th] # NoJob
  /\ LET j == busy[th] IN
       /\ st' = [st EXCEPT ![j] = "done"]
       /\ freed' = [freed EXCEPT ![j] = @ \/ j \in FrameJobs]
  /\ UNCHANGED <<pool, lq, busy, hooks, frame, success, key, wire>>

\* The hook returns; encrypt_then_hmac and inform_frame_done then
\* `delete frame`.
HookReturn(th) ==
  /\ busy[th] # NoJob
  /\ LET j == busy[th] IN
       /\ busy' = [busy EXCEPT ![th] = NoJob]
       /\ st' = [st EXCEPT ![j] = "done"]
       /\ freed' = [freed EXCEPT ![j] = @ \/ j \in FrameJobs]
  /\ UNCHANGED <<pool, lq, hooks, frame, success, key, wire>>

\* A worker's or the logic thread's own steps.
ThreadStep(th) ==
  \/ /\ th \in Workers
     /\ \/ WorkerHook(th)
        \/ VerifyIntro(th)
        \/ HmacThenDecrypt(th)
        \/ EncryptThenHmac(th)
  \/ th = Logic /\ LogicInform
  \/ HookReturn(th)

Next == (\E j \in Jobs : CallAsync(j)) \/ (\E th \in Threads : ThreadStep(th))

\* Every pool thread and the logic thread keep running the jobs queued to
\* them; the link session calls iwp_call_async_* when it likes.
Spec == Init /\ [][Next]_vars /\ \A th \in Threads : WF_vars(ThreadStep(th))

-----------------------------------------------------------------------------
(* Properties                                                              *)

\* The completion contract of spec 4.1 and 9: each request's hook is
\* called at most once, and exactly once by the time the request is done.
HookOnce ==
  \A j \in Jobs : hooks[j] <= 1 /\ (st[j] = "done" => hooks[j] = 1)

\* Round trip (spec 4.1 step 4): the frame encrypt_then_hmac handed to its
\* hook decrypts, by the spec's DecryptFrame under the same session key,
\* to the plaintext it was given.
FrameRoundTrip ==
  \A j \in FrameJobs :
    (Kind[j] = "encrypt" /\ hooks[j] > 0) =>
      LET r == SpecDecryptFrame(frame[j], key[j])
      IN  r.success /\ r.frame.body = wire[j].body

\* hmac_then_decrypt reports success only for a frame a peer holding this
\* session's key sent unaltered, and then the buffer holds its plaintext.
FrameAuthentic ==
  \A j \in FrameJobs :
    (Kind[j] = "decrypt" /\ st[j] \in {"logic", "running", "done"} /\ success[j]) =>
      /\ wire[j] \in {IwpEncryptFrame([wire[j] EXCEPT !.body = [pt |-> wire[j].body.pt, ks |-> {}]],
                                       key[j], n) : n \in Nonces}
      /\ frame[j].body = [pt |-> wire[j].body.pt, ks |-> {}]

\* Spec 4.1 step 4: the decrypt step runs only if the MAC matches, so a
\* frame hmac_then_decrypt rejects is handed back as it arrived.
FailedFrameUntouched ==
  \A j \in FrameJobs :
    (Kind[j] = "decrypt" /\ st[j] \in {"logic", "running", "done"} /\ ~success[j]) =>
      frame[j] = wire[j]

\* Spec 4.1 and 5, and crypto_async.h ("use logic as the callback handler
\* thread"): completion hooks run on one serializing context, so no two
\* hooks ever run at the same time.
HooksSerialized == Cardinality({th \in Threads : busy[th] # NoJob}) <= 1

\* Every request queued on the pool is eventually completed.
AllComplete == \A j \in Jobs : st[j] = "pool" ~> st[j] = "done"

====
