------------------------------- MODULE Payload -------------------------------
(***************************************************************************)
(* The limits of scripts/demo_policy.py on the body of a chat request, as  *)
(* auth_proxy.py applies them: json.loads, then validate_payload.          *)
(*                                                                         *)
(* A message is the length of its content, or Malformed: no object, an     *)
(* unknown role, or a content that is no string.  An absent max_tokens is  *)
(* its default, which is within the limits; one that is no integer gets    *)
(* the error of one that is too small, and is represented by it.           *)
(***************************************************************************)
EXTENDS Integers, Sequences

CONSTANTS MaxMessages,   \* MAX_MESSAGES
          MaxSingle,     \* MAX_SINGLE_CONTENT
          MaxAggregate,  \* MAX_AGGREGATE_CONTENT
          MaxTokens      \* MAX_TOKENS; MIN_MAX_TOKENS is 1

ASSUME PayloadAssumption ==
  MaxMessages \in Nat /\ MaxSingle \in Nat /\ MaxAggregate \in Nat /\ MaxTokens \in Nat \ {0}

Malformed == -1

\* "garbled" is no JSON, "nested" JSON on which json.loads recurses too deep,
\* "value" a value that is no object.
Body == [json : {"none", "garbled", "nested", "value", "object"},
         messages : Seq(Nat \cup {Malformed}),
         tokens : Int]

NoBody == [json |-> "none", messages |-> << >>, tokens |-> 1]

\* The content of the first n messages together.
Aggregate(messages) ==
  LET sum[n \in 0 .. Len(messages)] == IF n = 0 THEN 0 ELSE sum[n - 1] + messages[n]
  IN sum

\* Faulty variant: the contents are not added up.
FaultySingly(messages) ==
  {i \in DOMAIN messages : messages[i] = Malformed \/ messages[i] > MaxSingle}

\* The messages at which the loop returns.
Faulty(messages) ==
  {i \in DOMAIN messages :
     \/ messages[i] = Malformed
     \/ messages[i] > MaxSingle
     \/ Aggregate(messages)[i] > MaxAggregate}

\* The error code, "ok", or "uncaught": a RecursionError is no ValueError.
Verdict(body) ==
  LET messages == body.messages
      faulty == Faulty(messages)
      first == CHOOSE i \in faulty : \A j \in faulty : i <= j
  IN IF body.json = "nested" THEN "uncaught"
     ELSE IF body.json # "object" \/ messages = << >> THEN "invalid_payload"
     ELSE IF Len(messages) > MaxMessages THEN "too_many_messages"
     ELSE IF faulty # {} THEN IF messages[first] = Malformed THEN "invalid_payload"
                              ELSE "content_too_long"
     ELSE IF body.tokens \notin 1 .. MaxTokens THEN "invalid_max_tokens"
     ELSE "ok"

\* What the backend may be sent.
WithinLimits(body) ==
  /\ body.json = "object"
  /\ Len(body.messages) \in 1 .. MaxMessages
  /\ \A i \in DOMAIN body.messages : body.messages[i] \in 0 .. MaxSingle
  /\ ~(Aggregate(body.messages)[Len(body.messages)] > MaxAggregate)
  /\ body.tokens \in 1 .. MaxTokens
=============================================================================
