------------------------------- MODULE Stream -------------------------------
(***************************************************************************)
(* The pump of internal/relay/stream.go: a goroutine reads the upstream's  *)
(* events into a buffered channel, and the request's handler takes them    *)
(* out, forwards them to the client and accumulates the usage that the     *)
(* request is logged and billed by.  The upstream may end, break, or fail  *)
(* inside the stream, and the client may leave, at any moment.             *)
(*                                                                         *)
(* An event is a kind: a text delta, the usage of Anthropic's              *)
(* message_start (prompt tokens) and message_delta (completion tokens),    *)
(* one that does not parse, or a fatal upstream error.                     *)
(***************************************************************************)
EXTENDS Integers, Sequences, FiniteSets

CONSTANTS
  Cap,        \* buffer of the events channel
  Kinds,      \* kinds of event the upstream sends
  MaxEvents,  \* bound: events of the upstream
  Est         \* estimated prompt tokens

ASSUME StreamAssumption ==
  /\ Cap \in Nat \ {0} /\ MaxEvents \in Nat /\ Est \in Nat \ {0}
  /\ Kinds \subseteq {"text", "start", "delta", "junk", "fatal"}

VARIABLES
  pump,      \* what is written to the client, fixed by the two formats
  sent,      \* history: events read from the upstream, in order
  prod,      \* control point of the producer goroutine
  held,      \* the event the producer is sending on the channel
  end,       \* how reading the body ended: "none", "eof" or "broken"
  buf,       \* the events channel
  errCh,     \* the error channel: "none", or the terminal error
  closed,    \* close(events)
  con,       \* control point of the handler
  taken,     \* history: events received by the handler
  prompt, completion, reported,  \* finalUsage, and whether it is non-nil
  text,      \* length of the accumulated completion
  fatal,     \* fatalErr # nil
  out,       \* what was written to the client, "end" = terminal framing
  gone,      \* the client left: the request's context is cancelled
  logged     \* the status, prompt and completion given to finish()

producer == <<sent, prod, held, end, errCh, closed>>
usage == <<prompt, completion, reported, text>>
vars == <<pump, sent, prod, held, end, buf, errCh, closed, con, taken, prompt,
          completion, reported, text, fatal, out, gone, logged>>

NotLogged == [status |-> "none", prompt |-> 0, completion |-> 0]

Init ==
  /\ pump \in {"verbatim", "chunks", "framed"}
  /\ sent = <<>> /\ prod = "read" /\ held = "none" /\ end = "none"
  /\ buf = <<>> /\ errCh = "none" /\ closed = FALSE
  /\ con = "step" /\ taken = <<>>
  /\ prompt = 0 /\ completion = 0 /\ reported = FALSE /\ text = 0
  /\ fatal = FALSE /\ out = <<>> /\ gone = FALSE
  /\ logged = NotLogged

-----------------------------------------------------------------------------
(* upstreamEvents, readSSE, readEventStream: the producer. *)

Read(k) ==
  /\ prod = "read" /\ Len(sent) < MaxEvents
  /\ sent' = Append(sent, k)
  /\ held' = k
  /\ prod' = "send"
  /\ UNCHANGED <<pump, end, buf, errCh, closed, con, taken, usage, fatal, out,
                 gone, logged>>

(* Mutant: the channel has no bound. *)
PushUnbounded ==
  /\ prod = "send"
  /\ buf' = Append(buf, held)
  /\ held' = "none"
  /\ prod' = "read"
  /\ UNCHANGED <<pump, sent, end, errCh, closed, con, taken, usage, fatal, out,
                 gone, logged>>

(* Mutant: an event that does not fit is dropped. *)
PushOrDrop ==
  /\ prod = "send"
  /\ buf' = IF Len(buf) < Cap THEN Append(buf, held) ELSE buf
  /\ held' = "none"
  /\ prod' = "read"
  /\ UNCHANGED <<pump, sent, end, errCh, closed, con, taken, usage, fatal, out,
                 gone, logged>>

Push ==
  /\ prod = "send" /\ Len(buf) < Cap
  /\ buf' = Append(buf, held)
  /\ held' = "none"
  /\ prod' = "read"
  /\ UNCHANGED <<pump, sent, end, errCh, closed, con, taken, usage, fatal, out,
                 gone, logged>>

(* The body ends, cleanly or not.                                          *)
ReadEnds(e) ==
  /\ prod = "read"
  /\ end' = e
  /\ prod' = "error"
  /\ UNCHANGED <<pump, sent, held, buf, errCh, closed, con, taken, usage,
                 fatal, out, gone, logged>>

(* errCh has room for the one value it ever carries. *)
PutError ==
  /\ prod = "error"
  /\ errCh' = end
  /\ prod' = "close"
  /\ UNCHANGED <<pump, sent, held, end, buf, closed, con, taken, usage, fatal,
                 out, gone, logged>>

(* Mutant: the events channel is not closed. *)
CloseEventsForgotten ==
  /\ prod = "close"
  /\ prod' = "done"
  /\ UNCHANGED <<pump, sent, held, end, buf, errCh, closed, con, taken, usage,
                 fatal, out, gone, logged>>

CloseEvents ==
  /\ prod = "close"
  /\ closed' = TRUE
  /\ prod' = "done"
  /\ UNCHANGED <<pump, sent, held, end, buf, errCh, con, taken, usage, fatal,
                 out, gone, logged>>

-----------------------------------------------------------------------------
(* The handler: gin's Stream loop around the step function. *)

(* Mutant: the last event's usage replaces the total.                      *)
MergeReplaces(k) ==
  /\ prompt' = IF k = "start" THEN 2 ELSE IF k = "delta" THEN 0 ELSE prompt
  /\ completion' = IF k = "delta" THEN completion + 1
                   ELSE IF k = "start" THEN 0 ELSE completion
  /\ reported' = (reported \/ k \in {"start", "delta"})

(* mergeStreamUsage: a field an event does not carry keeps its value, and  *)
(* one it carries is replaced; the n-th message_delta says n tokens.       *)
Merge(k) ==
  /\ prompt' = IF k = "start" THEN 2 ELSE prompt
  /\ completion' = IF k = "delta" THEN completion + 1 ELSE completion
  /\ reported' = (reported \/ k \in {"start", "delta"})

(* What process() writes: pumpAnthropicPassthrough forwards every event.   *)
(* pumpStream skips what does not parse and says nothing of an error; it   *)
(* writes text and usage as OpenAI chunks, but for Anthropic and Bedrock   *)
(* output only the text, and the usage in the terminal framing.            *)
Passed == CASE pump = "verbatim" -> Kinds
            [] pump = "chunks" -> Kinds \ {"junk", "fatal"}
            [] pump = "framed" -> Kinds \cap {"text"}

Forwarded(k) == IF k \in Passed THEN <<k>> ELSE <<>>

(* A receive from the channel and process().                               *)
Take ==
  /\ buf # <<>>
  /\ buf' = Tail(buf)
  /\ taken' = Append(taken, Head(buf))
  /\ Merge(Head(buf))
  /\ text' = IF Head(buf) = "text" THEN text + 1 ELSE text
  /\ fatal' = (Head(buf) = "fatal")
  /\ out' = out \o Forwarded(Head(buf))
  /\ con' = "step"

(* Mutant: errCh is read as soon as it holds something. *)
DrainedEarly ==
  /\ errCh # "none"
  /\ fatal' = (errCh = "broken")
  /\ con' = "finish"
  /\ UNCHANGED <<buf, taken, usage, out>>

(* Mutant: any terminal error is taken for the end of the stream. *)
DrainedIgnoresError ==
  /\ buf = <<>> /\ closed
  /\ con' = "finish"
  /\ UNCHANGED <<buf, taken, usage, fatal, out>>

(* The channel is closed and drained: the terminal error is read.          *)
Drained ==
  /\ buf = <<>> /\ closed
  /\ fatal' = (errCh = "broken")
  /\ con' = "finish"
  /\ UNCHANGED <<buf, taken, usage, out>>

(* The step function: a fatal error stops it; otherwise what the channel   *)
(* holds comes first, and only an empty open channel makes it wait.  Gin   *)
(* stops calling it when the connection is gone.                           *)
Step ==
  /\ con = "step"
  /\ \/ /\ fatal \/ gone
        /\ con' = "finish"
        /\ UNCHANGED <<buf, taken, usage, fatal, out>>
     \/ ~fatal /\ Take
     \/ ~fatal /\ Drained
     \/ /\ ~fatal /\ buf = <<>> /\ ~closed
        /\ con' = "wait"
        /\ UNCHANGED <<buf, taken, usage, fatal, out>>
  /\ UNCHANGED <<pump, producer, gone, logged>>

(* The blocking select, on the context and the channel.                    *)
Wait ==
  /\ con = "wait"
  /\ \/ /\ gone
        /\ con' = "finish"
        /\ UNCHANGED <<buf, taken, usage, fatal, out>>
     \/ Take
     \/ Drained
  /\ UNCHANGED <<pump, producer, gone, logged>>

(* Terminal framing, then finalizeUsage: what the upstream reported, with  *)
(* the estimate as the floor of the prompt, or else estimates.  The body   *)
(* is closed and the upstream call cancelled when the handler returns.     *)
Finish ==
  /\ con = "finish"
  /\ out' = IF pump = "verbatim" THEN out ELSE Append(out, "end")
  /\ logged' = [status |-> IF fatal THEN "error" ELSE "success",
                prompt |-> IF prompt = 0 THEN Est ELSE prompt,
                completion |-> IF reported THEN completion ELSE text]
  /\ con' = "done"
  /\ UNCHANGED <<pump, producer, buf, taken, usage, fatal, gone>>

Leave ==
  /\ ~gone /\ con # "done"
  /\ gone' = TRUE
  /\ UNCHANGED <<pump, producer, buf, con, taken, usage, fatal, out, logged>>

Cancelled == gone \/ con = "done"

Next ==
  \/ \E k \in Kinds : Read(k)
  \/ Push \/ \E e \in {"eof", "broken"} : ReadEnds(e)
  \/ PutError \/ CloseEvents
  \/ Step \/ Wait \/ Finish \/ Leave

Spec == Init /\ [][Next]_vars

(* Both goroutines run, and a read of a cancelled body returns.  The       *)
(* upstream need not say anything, and the client need not leave.          *)
Fairness ==
  /\ WF_vars(Push) /\ WF_vars(PutError) /\ WF_vars(CloseEvents)
  /\ WF_vars(Cancelled /\ ReadEnds("broken"))
  /\ WF_vars(Step) /\ WF_vars(Wait) /\ WF_vars(Finish)

FairSpec == Spec /\ Fairness

-----------------------------------------------------------------------------
(* Properties. *)

(* The types of the variables.                                             *)
TypeOK ==
  /\ pump \in {"verbatim", "chunks", "framed"} /\ closed \in BOOLEAN /\ reported \in BOOLEAN
  /\ fatal \in BOOLEAN /\ gone \in BOOLEAN
  /\ sent \in Seq(Kinds) /\ buf \in Seq(Kinds) /\ taken \in Seq(Kinds)
  /\ Len(buf) <= Cap
  /\ out \in Seq(Kinds \cup {"end"})
  /\ held \in Kinds \cup {"none"}
  /\ end \in {"none", "eof", "broken"} /\ errCh \in {"none", "eof", "broken"}
  /\ prod \in {"read", "send", "error", "close", "done"}
  /\ con \in {"step", "wait", "finish", "done"}
  /\ prompt \in Nat /\ completion \in Nat /\ text \in Nat
  /\ logged \in [status : {"none", "success", "error"}, prompt : Nat,
                 completion : Nat]

Count(s, k) == Cardinality({i \in DOMAIN s : s[i] = k})

(* "End-of-stream usage is always recorded": a stream logged as a success  *)
(* whose client stayed to the end is logged with the usage of everything   *)
(* the upstream sent, its last event included (the drain of pumpStream,    *)
(* mergeStreamUsage and finalizeUsage together).                           *)
UsageComplete ==
  logged.status = "success" /\ ~gone =>
    /\ logged.prompt = (IF Count(sent, "start") > 0 THEN 2 ELSE Est)
    /\ logged.completion = (IF Count(sent, "start") + Count(sent, "delta") > 0
                            THEN Count(sent, "delta") ELSE Count(sent, "text"))

(* Only a clean stream is billed: a success means that no fatal event was  *)
(* received and that the upstream ended cleanly, or that the client left;  *)
(* and an error means one of the two did happen.                           *)
OnlyCleanIsBilled ==
  /\ logged.status = "success" => Count(taken, "fatal") = 0 /\ (gone \/ end = "eof")
  /\ logged.status = "error" => Count(taken, "fatal") = 1 \/ end = "broken"

(* The place in the output of the i-th event received, if it has one.      *)
Place(i) == Cardinality({j \in 1 .. i : taken[j] \in Passed})

(* What the client's format has is forwarded in the order the upstream     *)
(* sent it, without gaps, nothing after a fatal event, and a reshaped      *)
(* stream is terminated exactly once, last, however it ended; the          *)
(* passthrough adds nothing.                                               *)
ForwardedInOrder ==
  LET terminated == con = "done" /\ pump # "verbatim"
  IN /\ Len(taken) <= Len(sent) /\ \A i \in DOMAIN taken : taken[i] = sent[i]
     /\ \A i \in DOMAIN taken : taken[i] \in Passed => out[Place(i)] = taken[i]
     /\ Len(out) = Place(Len(taken)) + (IF terminated THEN 1 ELSE 0)
     /\ terminated => out[Len(out)] = "end"
     /\ \A i \in DOMAIN taken : taken[i] = "fatal" => i = Len(taken)

(* The handler returns once the upstream has ended or the client has left. *)
HandlerReturns == end # "none" \/ gone ~> con = "done"

(* upstreamEvents: "the error channel receives a terminal error (or nil at *)
(* clean EOF) exactly once when the events channel closes": the producer   *)
(* gets there once the handler has returned.                               *)
ProducerReturns == con = "done" ~> prod = "done" /\ errCh # "none"
=============================================================================
