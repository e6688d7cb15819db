----------------------------- MODULE MCGateway -----------------------------
(* Gateway on a few handler threads and one request of each kind that the  *)
(* gateway treats differently.                                             *)
EXTENDS Gateway, TLC

Get(path) == [auth |-> "good", target |-> "origin", method |-> "GET",
              path |-> path, chunked |-> FALSE, length |-> "zero", body |-> NoBody]

Chat(length, body) ==
  [auth |-> "good", target |-> "origin", method |-> "POST",
   path |-> "/v1/chat/completions", chunked |-> FALSE, length |-> length,
   body |-> body]

Object(messages, limit) == [json |-> "object", messages |-> messages, tokens |-> limit]

\* At every limit at once, with MaxMessages = 2, MaxSingle = 2, MaxAggregate = 3.
Valid == Object(<<2, 1>>, MaxTokens)

\* Just over one limit each.
Invalid == {[NoBody EXCEPT !.json = "garbled"], Object(<<1, 1, 1>>, 1),
            Object(<<2, 2>>, 1), Object(<<Malformed>>, 1)}

\* Turned away before any shared access: bad token, unknown path, GET on the
\* chat route, chunked body, body too large.
Rejected == {[Chat("fits", Valid) EXCEPT !.auth = "wrong"],
             Get("/other"),
             Get("/v1/chat/completions"),
             [Chat("fits", Valid) EXCEPT !.chunked = TRUE],
             Chat("huge", NoBody)}

Inferences == {Chat("fits", Valid), Chat("fits", Object(<<3>>, 1)),
               Chat("fits", Object(<<1>>, MaxTokens + 1))}

Ordinary == {Get("/v1/models"), Get("/ready"), Chat("zero", NoBody)} \cup Inferences

OrdinaryAndRejected == Ordinary \cup Rejected

\* Requests on which a handler ends by an exception nothing catches.
Fatal == {Chat("fits", [NoBody EXCEPT !.json = "nested"]),
          [Chat("fits", Valid) EXCEPT !.target = "nonascii"]}

Everything == OrdinaryAndRejected \cup Fatal \cup {Chat("fits", body) : body \in Invalid}

HandlerSymmetry == Permutations(Handlers)
=============================================================================
