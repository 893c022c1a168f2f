------------------------------- MODULE Batch -------------------------------
(***************************************************************************)
(* An OData batch request: the builder serializes retrieve requests and    *)
(* change sets to one multipart payload, the service executes the parts    *)
(* and answers with one multipart response, and the client takes that      *)
(* apart again.  Nothing but the position relates an answer to a request.  *)
(*                                                                         *)
(* A text is the sequence of its telling lines: boundaries, content types, *)
(* request and status lines and bodies.  Blank lines and the white space   *)
(* that splitResponse() trims are left out.                                *)
(***************************************************************************)
EXTENDS Integers, Sequences, SequencesExt

CONSTANTS Keys,       \* entities of the service
          Batches,    \* what the application may pass to batch(): sequences of parts
          Multiline,  \* whether the service spreads a body over several lines
          Metadata,   \* whether entities carry `__metadata', as OData V2 has it
          Undefined

VARIABLES requests,   \* the parts of the batch
          pc,         \* "build", "service", "response", "done" or "failed"
          payload,    \* the serialized batch request
          store,      \* the values of the entities
          log,        \* the service's record of the parts it executed
          response,   \* the text of the response
          result      \* what execute() resolves to

vars == <<requests, pc, payload, store, log, response, result>>

-----------------------------------------------------------------------------
(* Data                                                                    *)

Get(k) == [kind |-> "get", key |-> k]
ChangeSet(keys) == [kind |-> "changeSet", writes |-> keys]

\* Each change set writes its own position.
Initial == 0
Others == -1
Values == Nat \cup {Others}

Delimiter(b) == <<"--", b>>
Close(b) == <<"--end", b>>
IsBoundary(line, b) == line[1] \in {"--", "--end"} /\ line[2] = b

Http == <<"type", "application/http">>
Multipart(b) == <<"type", "multipart/mixed", b>>

Outer == "batch"
Inner == "changeset"

BatchAssumption ==
  /\ Batches \subseteq Seq([kind : {"get"}, key : Keys]
                             \cup [kind : {"changeSet"}, writes : Seq(Keys)])
  /\ Multiline \in BOOLEAN /\ Metadata \in BOOLEAN

-----------------------------------------------------------------------------
(* Texts                                                                   *)

\* Array.join(): the texts with one line between each two.
Join(texts, line) ==
  FlattenSeq([i \in 1..Len(texts) |-> IF i = 1 THEN texts[i] ELSE <<line>> \o texts[i]])

Enclose(texts, b) == <<Delimiter(b)>> \o Join(texts, Delimiter(b)) \o <<Close(b)>>

ExtendLast(parts, line) == [parts EXCEPT ![Len(parts)] = Append(@, line)]

\* The parts of the first n lines: a boundary begins the next one.
Splits(text, b) ==
  LET parts[n \in 0..Len(text)] ==
        IF n = 0 THEN << <<>> >>
        ELSE IF IsBoundary(text[n], b) THEN Append(parts[n - 1], <<>>)
        ELSE ExtendLast(parts[n - 1], text[n])
  IN parts

\* String.split(`--boundary'): what lies before, between and after the boundaries.
\* The code splits wherever the text has these characters; that no body and no
\* other boundary contains them is an assumption about whoever chose the boundary.
SplitAt(text, b) == Splits(text, b)[Len(text)]

-----------------------------------------------------------------------------
(* Serializing the request                                                 *)

\* The request line of a read or write names the entity, a write its value.
SerializeRequest(line) == <<Http, line>>

SerializeChangeSet(writes, i) ==
  <<Multipart(Inner)>> \o
  Enclose([j \in 1..Len(writes) |-> SerializeRequest(<<"write", writes[j], i>>)], Inner)

\* What subrequest i becomes; nothing at all for a change set without requests.
Serialized(i) ==
  IF requests[i].kind = "get" THEN SerializeRequest(<<"read", requests[i].key>>)
  ELSE IF requests[i].writes = <<>> THEN <<>>
  ELSE SerializeChangeSet(requests[i].writes, i)

\* The positions, among the first n, whose subrequest is sent.
SentOf[n \in 0..Len(requests)] ==
  IF n = 0 THEN <<>>
  ELSE IF Serialized(n) # <<>> THEN Append(SentOf[n - 1], n)
  ELSE SentOf[n - 1]

Sent == SentOf[Len(requests)]

\* Mutant: the retrieve requests are put before the change sets.
ReadsFirst ==
  LET Is(kind) == SelectSeq(Sent, LAMBDA i : requests[i].kind = kind)
      order == Is("get") \o Is("changeSet")
  IN IF order = <<>> THEN <<>>
     ELSE Enclose([n \in 1..Len(order) |-> Serialized(order[n])], Outer)

SerializeBatchRequest ==
  IF Sent = <<>> THEN <<>>
  ELSE Enclose([n \in 1..Len(Sent) |-> Serialized(Sent[n])], Outer)

-----------------------------------------------------------------------------
(* Parsing the response                                                    *)

Malformed == <<"malformed">>

\* Mutant: what follows the last boundary counts as a response.
SplitWithRest(text, b) ==
  LET parts == SplitAt(text, b) IN
  IF Len(parts) >= 3 THEN SubSeq(parts, 2, Len(parts)) ELSE Malformed

\* The text before the first and after the last boundary is dropped.  The line
\* break that answers with 204, or 200 and no content, get back after trimming is a
\* blank line: it gives them an empty last line, for which NoBody stands.
SplitResponse(text, b) ==
  LET parts == SplitAt(text, b) IN
  IF Len(parts) >= 3 THEN SubSeq(parts, 2, Len(parts) - 1) ELSE Malformed

NoBody == [key |-> Undefined, value |-> Initial]

\* The last line, if it is a JSON document of its own; `{}' if it is not.  Parts of
\* fewer than three lines, an error in the code, lack a type or a status here: the
\* blank line between these makes three.
ParseResponseBody(part) ==
  LET last == part[Len(part)] IN
  IF last[1] = "body" THEN last[2] ELSE NoBody

HasStatus(part) == \E i \in 1..Len(part) : part[i][1] = "status"

\* A status line without a code, for which the code assumes 200 if there is `@odata'
\* data, is none that this service sends.
ParseHttpCode(part) ==
  part[CHOOSE i \in 1..Len(part) : part[i][1] = "status"
                                     /\ \A j \in 1..i - 1 : part[j][1] # "status"][2]

ParseResponseData(part) ==
  IF HasStatus(part)
    THEN <<"data", [httpCode |-> ParseHttpCode(part), body |-> ParseResponseBody(part)]>>
    ELSE Malformed

\* One part of the response: a change set's list, or a single answer.
ParsePart(part) ==
  IF part = <<>> THEN Malformed
  ELSE IF part[1][1] = "type" /\ part[1][2] = "multipart/mixed"
    THEN LET subs == SplitResponse(part, part[1][3]) IN
         IF subs = Malformed \/ \E i \in 1..Len(subs) : ParseResponseData(subs[i]) = Malformed
           THEN Malformed
           ELSE <<"list", [i \in 1..Len(subs) |-> ParseResponseData(subs[i])[2]]>>
  ELSE IF part[1] = Http THEN ParseResponseData(part)
  ELSE Malformed

ParseBatchResponse(text) ==
  IF text = <<>> THEN <<>>
  ELSE LET parts == SplitResponse(text, Outer) IN
       IF parts = Malformed \/ \E i \in 1..Len(parts) : ParsePart(parts[i]) = Malformed
         THEN Malformed
         ELSE [i \in 1..Len(parts) |-> ParsePart(parts[i])]

\* The API of the entity, found with the URI in its `__metadata'.
GetApi(body) == IF Metadata THEN body.key ELSE Undefined

IsHttpSuccessCode(code) == code \in 200..299

Deserialize(parsed) ==
  IF parsed[1] = "list" THEN [type |-> "WriteResponses", responses |-> parsed[2]]
  ELSE IF IsHttpSuccessCode(parsed[2].httpCode)
    THEN [type |-> "ReadResponse", body |-> parsed[2].body, entity |-> GetApi(parsed[2].body)]
  ELSE [type |-> "ErrorResponse", httpCode |-> parsed[2].httpCode]

DeserializeBatchResponse(parsed) == [i \in 1..Len(parsed) |-> Deserialize(parsed[i])]

-----------------------------------------------------------------------------
(* The service                                                             *)

\* The parts of the payload, as the standard has them parsed.
Received ==
  IF payload = <<>> THEN <<>>
  ELSE LET parts == SplitAt(payload, Outer) IN SubSeq(parts, 2, Len(parts) - 1)

IsRead(part) == part[1] = Http
Key(part) == part[2][2]

WritesOf(part) ==
  LET subs == SplitAt(part, Inner) IN [i \in 1..Len(subs) - 2 |-> subs[i + 1][2]]

AnswerLines(code, body) ==
  <<Http, <<"status", code>>>> \o
  (IF body = NoBody THEN <<>>
   ELSE IF Multiline THEN <<<<"line", "{">>, <<"line", "}">>>>
   ELSE <<<<"body", body>>>>)

\* The answer to an executed part: a change set that has failed is answered
\* once, one that was applied once for each write, in any order.  Each write is
\* answered with the entity: services that answer 204 are left out.
Answer(entry) ==
  IF ~entry.ok THEN AnswerLines(400, NoBody)
  ELSE IF IsRead(entry.part) THEN AnswerLines(200, entry.bodies[1])
  ELSE <<Multipart(Inner)>> \o
       Enclose([i \in 1..Len(entry.bodies) |-> AnswerLines(200, entry.bodies[i])], Inner)

-----------------------------------------------------------------------------
(* Actions                                                                 *)

Init ==
  /\ requests \in Batches
  /\ pc = "build"
  /\ payload = <<>>
  /\ store = [k \in Keys |-> Initial]
  /\ log = <<>>
  /\ response = <<>>
  /\ result = Undefined

\* build() and the request itself.
Build ==
  /\ pc = "build"
  /\ payload' = SerializeBatchRequest
  /\ pc' = "service"
  /\ UNCHANGED <<requests, store, log, response, result>>

NextPart == Received[Len(log) + 1]

\* The service goes on after an error or stops at it.
Executing == pc = "service" /\ Len(log) < Len(Received)

ExecuteRead ==
  /\ Executing
  /\ IsRead(NextPart)
  /\ log' = Append(log, [part |-> NextPart, ok |-> TRUE,
                         bodies |-> <<[key |-> Key(NextPart), value |-> store[Key(NextPart)]]>>])
  /\ UNCHANGED <<requests, pc, payload, store, response, result>>

\* The writes of a change set take effect together.
ExecuteChangeSet ==
  /\ Executing
  /\ ~IsRead(NextPart)
  /\ LET writes == WritesOf(NextPart) IN
       /\ store' = [k \in Keys |->
                      IF \E i \in 1..Len(writes) : writes[i][2] = k THEN writes[1][3] ELSE store[k]]
       /\ \E order \in Bijection(1..Len(writes), 1..Len(writes)) :
            log' = Append(log, [part |-> NextPart, ok |-> TRUE,
                     bodies |-> [i \in 1..Len(writes) |->
                       [key |-> writes[order[i]][2], value |-> writes[order[i]][3]]]])
  /\ UNCHANGED <<requests, pc, payload, response, result>>

Refuse ==
  /\ Executing
  /\ log' = Append(log, [part |-> NextPart, ok |-> FALSE, bodies |-> <<>>])
  /\ UNCHANGED <<requests, pc, payload, store, response, result>>

\* Somebody else writes an entity between two parts.
ForeignWrite(k) ==
  /\ pc = "service"
  /\ store' = [store EXCEPT ![k] = Others]
  /\ UNCHANGED <<requests, pc, payload, log, response, result>>

Respond ==
  /\ pc = "service"
  /\ \/ Len(log) = Len(Received)
     \/ log # <<>> /\ ~log[Len(log)].ok
  /\ response' = IF log = <<>> THEN <<>>
                 ELSE Enclose([i \in 1..Len(log) |-> Answer(log[i])], Outer)
  /\ pc' = "response"
  /\ UNCHANGED <<requests, payload, store, log, result>>

\* The batch request itself fails, at any time.
RequestFails ==
  /\ pc \in {"service", "response"}
  /\ pc' = "failed"
  /\ UNCHANGED <<requests, payload, store, log, response, result>>

\* The connection ends early, where nothing announced the length.
Truncate ==
  /\ pc = "response"
  /\ \E n \in 0..Len(response) - 1 : response' = SubSeq(response, 1, n)
  /\ UNCHANGED <<requests, pc, payload, store, log, result>>

\* parseBatchResponse() and deserializeBatchResponse(), or 'Batch request failed!'.
Parse ==
  /\ pc = "response"
  /\ LET parsed == ParseBatchResponse(response) IN
       IF parsed = Malformed
         THEN pc' = "failed" /\ UNCHANGED result
         ELSE pc' = "done" /\ result' = DeserializeBatchResponse(parsed)
  /\ UNCHANGED <<requests, payload, store, log, response>>

Next ==
  \/ Build
  \/ ExecuteRead
  \/ ExecuteChangeSet
  \/ Refuse
  \/ \E k \in Keys : ForeignWrite(k)
  \/ Respond
  \/ RequestFails
  \/ Truncate
  \/ Parse

Spec == Init /\ [][Next]_vars

-----------------------------------------------------------------------------
(* Properties                                                              *)

Body == [key : Keys \cup {Undefined}, value : Values]

\* An element of the array that execute() resolves to.
IsBatchResponse(r) ==
  \/ r.type = "ReadResponse" /\ r.body \in Body /\ r.entity \in Keys \cup {Undefined}
  \/ r.type = "WriteResponses" /\ \A i \in 1..Len(r.responses) : r.responses[i].body \in Body
  \/ r.type = "ErrorResponse" /\ r.httpCode \in 400..599

TypeOK ==
  /\ pc \in {"build", "service", "response", "done", "failed"}
  /\ store \in [Keys -> Values]
  /\ Len(log) <= Len(Sent)
  /\ pc = "done" => \A i \in 1..Len(result) : IsBatchResponse(result[i])

\* Whatever the service refused, wherever it stopped and wherever the response
\* broke off: each element of the result is the whole answer to the subrequest
\* at its position among those sent -- an error if and only if it was refused,
\* and for a change set one response for each of its writes.
ResultMatchesRequest ==
  pc = "done" =>
    /\ Len(result) <= Len(Sent)
    /\ \A i \in 1..Len(result) :
         LET request == requests[Sent[i]] IN
           IF ~log[i].ok THEN result[i].type = "ErrorResponse"
           ELSE IF request.kind = "get"
             THEN result[i].type = "ReadResponse" /\ result[i].body.key = request.key
           ELSE /\ result[i].type = "WriteResponses"
                /\ Len(result[i].responses) = Len(request.writes)
                /\ \A k \in Keys :
                     (\E j \in 1..Len(request.writes) : request.writes[j] = k)
                       <=> (\E j \in 1..Len(request.writes) : result[i].responses[j].body.key = k)

Wrote(i, k) ==
  requests[i].kind = "changeSet" /\ \E j \in 1..Len(requests[i].writes) : requests[i].writes[j] = k

\* `The retrieve and change sets will be executed in order': a retrieve request
\* shows what the last successful change set before it wrote, or what somebody
\* else wrote, never an older or a later change set nor the value before all.
ReadsSeeEarlierWrites ==
  pc = "done" =>
    \A i \in 1..Len(result) :
      result[i].type = "ReadResponse" =>
        LET before == { j \in 1..i - 1 : /\ Wrote(Sent[j], requests[Sent[i]].key)
                                         /\ result[j].type # "ErrorResponse" }
            value == result[i].body.value
        IN \/ value = Others
           \/ value = Initial /\ before = {}
           \/ \E j \in before : value = Sent[j] /\ \A h \in before : h <= j
=============================================================================
