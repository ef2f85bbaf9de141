----------------------------- MODULE LiveSession ----------------------------
(***************************************************************************)
(* One WebSocket session of /v1/tts/live: LiveHandler.ServeHTTP of         *)
(* api/internal/ws/live.go with its two goroutines -- the main loop that   *)
(* reads text from the client, and the receiver that takes PCM chunks from *)
(* the inference stream -- and SynthesizeLive of inference/server.py at    *)
(* the other end.  They share budget (no lock), utt (under mu) and the     *)
(* coalescer (its own lock); everything else meets in queues.              *)
(*                                                                         *)
(* A phrase is the text up to a message with final = true; its audio is a  *)
(* number of equal chunks of cost one, followed by the seq = -1 marker.    *)
(***************************************************************************)
EXTENDS Integers, Sequences

CONSTANTS
    MaxPhrases,      \* bound on the phrases the client sends
    MaxChunks,       \* bound on the chunks of a phrase
    InitialBalance,  \* the balance at admission
    MayBreak         \* whether the inference stream may break

ASSUME LiveAssumption ==
    /\ MaxPhrases \in Nat /\ MaxChunks \in Nat
    /\ InitialBalance \in Nat \ {0}
    /\ MayBreak \in BOOLEAN

VARIABLES
    mpc,        \* the handler: "arrive", "open", then the main loop "read", "send",
                \* "sent", and at its end "flush", "return", "done"
    sending,    \* the phrase being sent; 0 for text that is not final
    phrases,    \* final messages read so far
    rpc,        \* the receiver: "top", "recv", "debit", "write", "add"; "exited"
                \* also before it has been started
    local,      \* the budget the receiver read for budget -= cost
    budget,
    utt,        \* utteranceMetrics: active, audio, and the phrase it was made for
    cancelled,  \* ctx of the session
    slot,       \* whether the session holds its synthesis slot
    window,     \* the coalescer's window
    published,  \* chunks the coalescer has published
    wallet,     \* what Refresh reads; other requests of the user lower it
    inbox,      \* phrases on their way to or in SynthesizeLive
    outbox,     \* its answers: the phrase and whether it is a chunk or the marker
    produced,   \* chunks of the first phrase of inbox already produced
    broken,     \* whether the inference stream has failed
    exhausted,  \* whether insufficient_balance was sent
    patient,    \* whether this client waits for utterance_done before it sends
                \* the next phrase
    delivered,  \* history: chunks WriteMessage accepted
    late,       \* history: those AddPCM was called for after the final flush
    acked       \* history: utterance_done messages sent

main == <<mpc, sending, phrases>>
receiver == <<rpc, local>>
billing == <<window, published, late>>
inference == <<inbox, outbox, produced, broken>>
vars == <<main, receiver, budget, utt, cancelled, slot, billing, wallet, inference,
          exhausted, patient, delivered, acked>>

NoUtterance == [active |-> FALSE, phrase |-> 0, heard |-> {}]

Init ==
    /\ mpc = "arrive" /\ sending = 0 /\ phrases = 0
    /\ rpc = "exited" /\ local = 0
    /\ budget = 0 /\ wallet = InitialBalance
    /\ utt = NoUtterance
    /\ cancelled = FALSE /\ slot = FALSE
    /\ window = 0 /\ published = 0 /\ late = 0
    /\ inbox = <<>> /\ outbox = <<>> /\ produced = 0 /\ broken = FALSE
    /\ exhausted = FALSE /\ patient \in BOOLEAN /\ delivered = 0 /\ acked = 0

---------------------------------------------------------------------------
(* The way into the session.                                                *)

(* The wallet cannot be read or is empty, or the client leaves the queue    *)
(* for a slot.                                                              *)
Refuse ==
    /\ mpc = "arrive"
    /\ mpc' = "done"
    /\ UNCHANGED <<sending, phrases, receiver, budget, utt, cancelled, slot, billing, wallet,
                   inference, exhausted, patient, delivered, acked>>

(* The balance is read and a slot acquired; Synthesis has the wait for it.  *)
Admit ==
    /\ mpc = "arrive"
    /\ wallet > 0
    /\ budget' = wallet
    /\ slot' = TRUE
    /\ mpc' = "open"
    /\ UNCHANGED <<sending, phrases, receiver, utt, cancelled, billing, wallet, inference,
                   exhausted, patient, delivered, acked>>

(* The upgrade and the inference stream succeed; the receiver is started.   *)
Open ==
    /\ mpc = "open"
    /\ ~broken
    /\ mpc' = "read"
    /\ rpc' = "top"
    /\ UNCHANGED <<sending, phrases, local, budget, utt, cancelled, slot, billing, wallet,
                   inference, exhausted, patient, delivered, acked>>

OpenError ==
    /\ mpc = "open"
    /\ mpc' = "return"
    /\ UNCHANGED <<sending, phrases, receiver, budget, utt, cancelled, slot, billing, wallet,
                   inference, exhausted, patient, delivered, acked>>

---------------------------------------------------------------------------
(* The main loop.                                                           *)

(* A final message: close the utterance under way and begin the next.       *)
ReadFinal ==
    /\ mpc = "read"
    /\ phrases < MaxPhrases
    /\ patient => acked = phrases
    /\ phrases' = phrases + 1
    /\ sending' = phrases + 1
    /\ utt' = [active |-> TRUE, phrase |-> phrases + 1, heard |-> {}]
    /\ mpc' = "send"
    /\ UNCHANGED <<receiver, budget, cancelled, slot, billing, wallet, inference, exhausted,
                   patient, delivered, acked>>

(* Text that is not final: inference only buffers it.                       *)
ReadPartial ==
    /\ mpc = "read"
    /\ sending' = 0
    /\ mpc' = "send"
    /\ UNCHANGED <<phrases, receiver, budget, utt, cancelled, slot, billing, wallet,
                   inference, exhausted, patient, delivered, acked>>

SendText ==
    /\ mpc = "send"
    /\ ~broken
    /\ inbox' = IF sending = 0 THEN inbox ELSE Append(inbox, sending)
    /\ mpc' = "sent"
    /\ UNCHANGED <<sending, phrases, receiver, budget, utt, cancelled, slot, billing, wallet,
                   outbox, produced, broken, exhausted, patient, delivered, acked>>

(* The error goes to the client and the loop continues, past the refresh.   *)
SendTextError ==
    /\ mpc = "send"
    /\ broken
    /\ mpc' = "read"
    /\ UNCHANGED <<sending, phrases, receiver, budget, utt, cancelled, slot, billing, wallet,
                   inference, exhausted, patient, delivered, acked>>

(* The refresh interval has passed, or not.  An error of Refresh yields a   *)
(* zero snapshot, which becomes the budget.                                 *)
MaybeRefresh ==
    /\ mpc = "sent"
    /\ mpc' = "read"
    /\ UNCHANGED budget \/ budget' \in {wallet, 0}
    /\ UNCHANGED <<sending, phrases, receiver, utt, cancelled, slot, billing, wallet,
                   inference, exhausted, patient, delivered, acked>>

(* ReadMessage fails: the client has closed the connection.                 *)
ClientCloses ==
    /\ mpc = "read"
    /\ mpc' = "flush"
    /\ UNCHANGED <<sending, phrases, receiver, budget, utt, cancelled, slot, billing, wallet,
                   inference, exhausted, patient, delivered, acked>>

(* Mutant of FinalFlush: the window is not published.                       *)
NoFinalFlush ==
    /\ mpc = "flush"
    /\ utt' = NoUtterance
    /\ mpc' = "return"
    /\ UNCHANGED <<sending, phrases, receiver, budget, cancelled, slot, billing, wallet,
                   inference, exhausted, patient, delivered, acked>>

(* flushUtterance and Coalescer.Flush.                                      *)
FinalFlush ==
    /\ mpc = "flush"
    /\ utt' = NoUtterance
    /\ published' = published + window
    /\ window' = 0
    /\ mpc' = "return"
    /\ UNCHANGED <<sending, phrases, receiver, budget, cancelled, slot, late, wallet, inference,
                   exhausted, patient, delivered, acked>>

(* Mutant of HandlerReturns: the deferred cancel and Release are missing.   *)
HandlerReturnsOnly ==
    /\ mpc = "return"
    /\ mpc' = "done"
    /\ UNCHANGED <<sending, phrases, receiver, budget, utt, cancelled, slot, billing, wallet,
                   inference, exhausted, patient, delivered, acked>>

(* The deferred calls: cancel, CloseSend, Close and Release.  Returning     *)
(* also ends r.Context(), and with it the inference stream.                 *)
HandlerReturns ==
    /\ mpc = "return"
    /\ mpc' = "done"
    /\ cancelled' = TRUE
    /\ slot' = FALSE
    /\ broken' = TRUE
    /\ UNCHANGED <<sending, phrases, receiver, budget, utt, billing, wallet, inbox, outbox,
                   produced, exhausted, patient, delivered, acked>>

---------------------------------------------------------------------------
(* The receiver.                                                            *)

Top ==
    /\ rpc = "top"
    /\ rpc' = IF cancelled THEN "exited" ELSE "recv"
    /\ UNCHANGED <<main, local, budget, utt, cancelled, slot, billing, wallet, inference,
                   exhausted, patient, delivered, acked>>

RecvError ==
    /\ rpc = "recv"
    /\ broken
    /\ rpc' = "exited"
    /\ UNCHANGED <<main, local, budget, utt, cancelled, slot, billing, wallet, inference,
                   exhausted, patient, delivered, acked>>

(* The seq = -1 marker: flushUtterance and utterance_done.                  *)
RecvMarker ==
    /\ rpc = "recv"
    /\ outbox # <<>> /\ Head(outbox).kind = "end"
    /\ outbox' = Tail(outbox)
    /\ utt' = NoUtterance
    /\ acked' = acked + 1
    /\ rpc' = "top"
    /\ UNCHANGED <<main, local, budget, cancelled, slot, billing, wallet, inbox, produced,
                   broken, exhausted, patient, delivered>>

(* A chunk counts for the utterance that is active, whichever that is; then *)
(* budget is read for budget -= cost, outside the lock.                     *)
RecvChunk ==
    /\ rpc = "recv"
    /\ outbox # <<>> /\ Head(outbox).kind = "pcm"
    /\ outbox' = Tail(outbox)
    /\ utt' = IF utt.active THEN [utt EXCEPT !.heard = @ \cup {Head(outbox).phrase}] ELSE utt
    /\ local' = budget
    /\ rpc' = "debit"
    /\ UNCHANGED <<main, budget, cancelled, slot, billing, wallet, inbox, produced, broken,
                   exhausted, patient, delivered, acked>>

(* Mutant of Debit: after insufficient_balance the receiver goes on.        *)
DebitGoesOn ==
    /\ rpc = "debit"
    /\ budget' = local - 1
    /\ exhausted' = (exhausted \/ local - 1 <= 0)
    /\ rpc' = "write"
    /\ UNCHANGED <<main, local, utt, cancelled, slot, billing, wallet, inference, delivered,
                   acked, patient>>

(* budget is written back; at zero the client is told, the connection gets  *)
(* a close frame with code 4020 and ctx is cancelled.                       *)
Debit ==
    /\ rpc = "debit"
    /\ budget' = local - 1
    /\ IF local - 1 <= 0
         THEN exhausted' = TRUE /\ cancelled' = TRUE /\ rpc' = "exited"
         ELSE rpc' = "write" /\ UNCHANGED <<exhausted, cancelled>>
    /\ UNCHANGED <<main, local, utt, slot, billing, wallet, inference, delivered, acked,
                   patient>>

Write ==
    /\ rpc = "write"
    /\ mpc # "done"
    /\ delivered' = delivered + 1
    /\ rpc' = "add"
    /\ UNCHANGED <<main, local, budget, utt, cancelled, slot, billing, wallet, inference,
                   exhausted, patient, acked>>

(* The connection may fail under any write, before ReadMessage notices.     *)
WriteError ==
    /\ rpc = "write"
    /\ rpc' = "exited"
    /\ UNCHANGED <<main, local, budget, utt, cancelled, slot, billing, wallet, inference,
                   exhausted, patient, delivered, acked>>

(* The handler's final flush is behind it; nobody waits for the receiver.   *)
Flushed == mpc \in {"return", "done"}

(* Coalescer.AddPCM: the window is published if the interval has passed.    *)
AddPCM ==
    /\ rpc = "add"
    /\ \/ window' = window + 1 /\ UNCHANGED published
       \/ published' = published + window + 1 /\ window' = 0
    /\ late' = IF Flushed THEN late + 1 ELSE late
    /\ rpc' = "top"
    /\ UNCHANGED <<main, local, budget, utt, cancelled, slot, wallet, inference, exhausted,
                   patient, delivered, acked>>

---------------------------------------------------------------------------
(* SynthesizeLive works through the phrases one at a time.  A phrase whose  *)
(* synthesis fails has fewer chunks and still ends with the marker.         *)

Produce ==
    /\ ~broken
    /\ inbox # <<>>
    /\ produced < MaxChunks
    /\ produced' = produced + 1
    /\ outbox' = Append(outbox, [phrase |-> Head(inbox), kind |-> "pcm"])
    /\ UNCHANGED <<main, receiver, budget, utt, cancelled, slot, billing, wallet, inbox,
                   broken, exhausted, patient, delivered, acked>>

(* Mutant of EndPhrase: the marker overtakes the last chunk.                *)
EndPhraseEarly ==
    /\ ~broken
    /\ inbox # <<>>
    /\ outbox' = outbox \o <<[phrase |-> Head(inbox), kind |-> "end"],
                             [phrase |-> Head(inbox), kind |-> "pcm"]>>
    /\ inbox' = Tail(inbox)
    /\ produced' = 0
    /\ UNCHANGED <<main, receiver, budget, utt, cancelled, slot, billing, wallet, broken,
                   exhausted, patient, delivered, acked>>

EndPhrase ==
    /\ ~broken
    /\ inbox # <<>>
    /\ outbox' = Append(outbox, [phrase |-> Head(inbox), kind |-> "end"])
    /\ inbox' = Tail(inbox)
    /\ produced' = 0
    /\ UNCHANGED <<main, receiver, budget, utt, cancelled, slot, billing, wallet, broken,
                   exhausted, patient, delivered, acked>>

Break ==
    /\ MayBreak
    /\ ~broken
    /\ broken' = TRUE
    /\ UNCHANGED <<main, receiver, budget, utt, cancelled, slot, billing, wallet, inbox,
                   outbox, produced, exhausted, patient, delivered, acked>>

(* Mutant of OthersSpend: the UPDATE without GREATEST.                      *)
OthersOverspend ==
    /\ wallet' = wallet - 1
    /\ wallet > -2
    /\ UNCHANGED <<main, receiver, budget, utt, cancelled, slot, billing, inference,
                   exhausted, patient, delivered, acked>>

(* Other requests of the same user are debited.                             *)
OthersSpend ==
    /\ wallet > 0
    /\ wallet' = wallet - 1
    /\ UNCHANGED <<main, receiver, budget, utt, cancelled, slot, billing, inference,
                   exhausted, patient, delivered, acked>>

(* Both goroutines have returned.                                           *)
Over == mpc = "done" /\ rpc = "exited" /\ UNCHANGED vars

---------------------------------------------------------------------------
MainStep ==
    Open \/ OpenError \/ SendText \/ SendTextError \/ MaybeRefresh \/ FinalFlush \/ HandlerReturns

ReceiverStep ==
    Top \/ RecvError \/ RecvMarker \/ RecvChunk \/ Debit \/ Write \/ WriteError \/ AddPCM

Next ==
    \/ Refuse \/ Admit \/ ReadFinal \/ ReadPartial \/ ClientCloses
    \/ MainStep
    \/ ReceiverStep
    \/ Produce \/ EndPhrase \/ Break
    \/ OthersSpend
    \/ Over

Spec == Init /\ [][Next]_vars

(* The goroutines run when they can; nothing is asked of the client.        *)
FairSpec == Spec /\ WF_vars(MainStep) /\ WF_vars(ReceiverStep)

---------------------------------------------------------------------------
(* Properties.                                                              *)

(* Every variable stays in the set of values its Go type allows.            *)
TypeOK ==
    /\ mpc \in {"arrive", "open", "read", "send", "sent", "flush", "return", "done"}
    /\ sending \in Nat /\ phrases \in Nat
    /\ rpc \in {"top", "recv", "debit", "write", "add", "exited"}
    /\ local \in Int /\ budget \in Int /\ wallet \in Nat
    /\ utt \in [active : BOOLEAN, phrase : Nat, heard : SUBSET Nat]
    /\ cancelled \in BOOLEAN /\ slot \in BOOLEAN /\ broken \in BOOLEAN
    /\ exhausted \in BOOLEAN /\ patient \in BOOLEAN
    /\ window \in Nat /\ published \in Nat /\ late \in Nat /\ delivered \in Nat /\ acked \in Nat
    /\ inbox \in Seq(Nat) /\ produced \in Nat
    /\ outbox \in Seq([phrase : Nat, kind : {"pcm", "end"}])

(* A chunk that was written is published or waits in the window, except for *)
(* the one between WriteMessage and AddPCM, and no other is.  The final     *)
(* flush leaves nothing behind of what was added before it; what the        *)
(* receiver adds after it may stay in the window, for no flush follows:     *)
(* those chunks, and no others, may be heard and never billed.              *)
BillingTracksDelivery ==
    /\ window + published = delivered - (IF rpc = "add" THEN 1 ELSE 0)
    /\ Flushed => window <= late

(* The strengthening: the receiver does not run before Open starts it, so   *)
(* that nothing is in the window, and has returned when                     *)
(* insufficient_balance has been sent.                                      *)
ReceiverOnce ==
    /\ mpc \in {"arrive", "open"} => rpc = "exited" /\ ~exhausted /\ window = 0
    /\ exhausted => rpc = "exited"

(* After insufficient_balance no further chunk is delivered, although the   *)
(* main loop goes on reading, sending and refreshing the budget.            *)
NothingAfterExhausted == [][exhausted => delivered' = delivered]_vars

(* live.go: "utteranceMetrics tracks one live phrase (SendText -> last      *)
(* PCM)".  For a client that waits for utterance_done before its next       *)
(* phrase that is so, although chunk, marker and text pass through four     *)
(* queues and two goroutines: SynthesizeLive sends the marker last and      *)
(* RecvMarker closes the utterance before it answers.                       *)
PatientAttribution == patient /\ utt.active => utt.heard \subseteq {utt.phrase}

(* When the client has gone, or the session could not be opened, it comes   *)
(* down: both goroutines return and the synthesis slot is released.         *)
SessionEnds == (mpc \in {"flush", "return"}) ~> (mpc = "done" /\ rpc = "exited" /\ ~slot)
=============================================================================
