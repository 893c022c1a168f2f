-------------------------- MODULE EntityUpdateProofs --------------------------
(***************************************************************************)
(* For any number of entity objects, builders, properties, values and      *)
(* attempts: with ETags and as long as the application leaves an entity    *)
(* alone while it is updated, the remote state is what it claims to be,    *)
(* no update is applied twice and none overwrites a foreign change.        *)
(***************************************************************************)
EXTENDS EntityUpdate, TLAPS

USE EntityUpdateAssumption

\* What an entity object contains.
LEMMA EntityType ==
  ASSUME TypeOK, NEW e \in Entities, entity[e] # Undefined
  PROVE  /\ entity[e] \in Entity
         /\ entity[e].local \in State /\ entity[e].remoteState \in State
         /\ entity[e].versionIdentifier \in Version \cup {Undefined}
BY DEF TypeOK, Entity

\* What a request contains.
LEMMA RequestType ==
  ASSUME TypeOK, NEW b \in Builders, request[b] # Undefined
  PROVE  /\ request[b] \in Request
         /\ request[b].entity \in Entities
         /\ DOMAIN request[b].payload \subseteq Fields
         /\ \A f \in DOMAIN request[b].payload : request[b].payload[f] \in Values
         /\ request[b].changed \subseteq Fields
         /\ request[b].eTag \in Version \cup {Undefined}
<1>1. request[b] \in Request
  BY DEF TypeOK
<1>2. PICK names \in SUBSET Fields : request[b].payload \in [names -> Values]
  BY <1>1 DEF Request, Payload
<1> QED
  BY <1>1, <1>2 DEF Request

\* Functions on a subset of the properties are payloads.
LEMMA PayloadType ==
  ASSUME NEW names \in SUBSET Fields, NEW p \in [names -> Values]
  PROVE  p \in Payload
BY DEF Payload

\* No entity has been read, no request built.
LEMMA InitIInv == Init => IInv
<1> SUFFICES ASSUME Init PROVE IInv
  OBVIOUS
<1>1. TypeOK
  BY DEF Init, TypeOK, Version
<1>2. ASSUME NEW b \in Builders
      PROVE  StageInv(b) /\ VersionInv(b) /\ RequestInv(b) /\ AnswerInv(b)
  BY DEF Init, StageInv, VersionInv, RequestInv, AnswerInv
<1>3. (\A e \in Entities : EntityInv(e)) /\ RemoteStateIsKnown
  BY DEF Init, EntityInv, RemoteStateIsKnown
<1> QED
  BY <1>1, <1>2, <1>3 DEF IInv

\* Once the version of the service has moved on, no identifier is current.
LEMMA VersionMoves ==
  ASSUME IInv, GuardedUse, server' \in [state : State, version : Version],
         server'.version = server.version + 1, UNCHANGED <<entity, request, pc>>
  PROVE  /\ \A b \in Builders : RequestInv(b)'
         /\ \A b \in Builders : pc[b] # "idle" =>
              /\ request'[b].eTag # Undefined /\ request'[b].eTag < server'.version
              /\ ~request'[b].versionIdentifierIgnored
         /\ \A e \in Entities : EntityInv(e)'
         /\ RemoteStateIsKnown'
<1>1. server.version \in Nat
  BY DEF IInv, TypeOK, Version
<1>2. ASSUME NEW b \in Builders, pc[b] # "idle"
      PROVE  /\ request'[b].eTag # Undefined /\ request'[b].eTag < server'.version
             /\ request'[b].eTag # server'.version
             /\ ~request'[b].versionIdentifierIgnored
  BY <1>1, <1>2, RequestType DEF IInv, VersionInv, StageInv, Version
<1>3. ASSUME NEW b \in Builders
      PROVE  RequestInv(b)'
  BY <1>2 DEF RequestInv
<1>4. ASSUME NEW e \in Entities, entity[e] # Undefined
      PROVE  /\ entity[e].versionIdentifier <= server'.version
             /\ entity[e].versionIdentifier # server'.version
  BY <1>1, <1>4, EntityType DEF IInv, EntityInv, TypeOK, Version, GuardedUse
<1> QED
  BY <1>2, <1>3, <1>4 DEF EntityInv, RemoteStateIsKnown

-----------------------------------------------------------------------------
(* The application and its builders                                        *)

\* Nothing a builder in progress relies on changes when `e' is not busy.
LEMMA ReadPreserves ==
  ASSUME IInv, GuardedUse, NEW e \in Entities, Read(e)
  PROVE  IInv'
<1>1. /\ DeserializeEntity \in Entity
      /\ DeserializeEntity.local = server.state
      /\ DeserializeEntity.remoteState = server.state
      /\ DeserializeEntity.versionIdentifier = server.version
      /\ server.version # Undefined
  BY DEF IInv, TypeOK, DeserializeEntity, SetVersionIdentifier, ETagOf, Or, GuardedUse, Entity
<1>2. entity' = [entity EXCEPT ![e] = DeserializeEntity]
  BY DEF Read
<1>3. TypeOK'
  BY <1>1, <1>2 DEF IInv, TypeOK, Read, network
<1>4. ASSUME NEW b \in Builders
      PROVE  StageInv(b)' /\ VersionInv(b)' /\ RequestInv(b)' /\ AnswerInv(b)'
  <2>1. CASE pc[b] \in {"built", "waiting"}
    <3>1. request[b] # Undefined /\ request[b].entity # e
      BY <2>1 DEF IInv, StageInv, Read, Busy
    <3>2. entity'[request[b].entity] = entity[request[b].entity]
      BY <1>2, <3>1, RequestType DEF IInv, TypeOK
    <3> QED
      BY <3>2 DEF IInv, StageInv, VersionInv, RequestInv, AnswerInv, Read, network
  <2>2. CASE pc[b] \notin {"built", "waiting"}
    <3>1. pc[b] # "idle" => request[b].entity \in Entities
      BY RequestType DEF IInv, StageInv
    <3>2. pc[b] # "idle" => entity'[request[b].entity] # Undefined
      BY <1>1, <1>2, <3>1 DEF IInv, TypeOK, StageInv
    <3> QED
      BY <2>2, <3>2 DEF IInv, StageInv, VersionInv, RequestInv, AnswerInv, Read, network
  <2> QED
    BY <2>1, <2>2
<1>5. ASSUME NEW d \in Entities
      PROVE  EntityInv(d)'
  BY <1>1, <1>2 DEF IInv, TypeOK, EntityInv, Read, Version
<1>6. RemoteStateIsKnown'
  BY <1>1, <1>2 DEF IInv, TypeOK, RemoteStateIsKnown, Read
<1> QED
  BY <1>3, <1>4, <1>5, <1>6 DEF IInv

\* An entity with a request under way is not changed; others have no request.
LEMMA ChangePreserves ==
  ASSUME IInv, GuardedUse, NEW e \in Entities, NEW f \in Fields, NEW value \in Values,
         Change(e, f, value)
  PROVE  IInv'
<1>0. UNCHANGED <<server, request, pc, attempts, awaited, late, answer, applied>>
  BY DEF Change, network
<1>1. entity[e] \in Entity
  BY EntityType DEF IInv, Change
<1>2. PICK d \in Entity : /\ entity' = [entity EXCEPT ![e] = d]
                          /\ d.remoteState = entity[e].remoteState
                          /\ d.versionIdentifier = entity[e].versionIdentifier
  <2>1. [entity[e] EXCEPT !.local = [entity[e].local EXCEPT ![f] = value]] \in Entity
    BY <1>1 DEF Entity, State
  <2> QED
    BY <1>1, <2>1 DEF Change, Entity
<1>3. TypeOK'
  BY <1>2 DEF IInv, TypeOK, Change, network
<1>4. ASSUME NEW b \in Builders
      PROVE  StageInv(b)' /\ VersionInv(b)' /\ RequestInv(b)' /\ AnswerInv(b)'
  <2>1. CASE pc[b] \in {"built", "waiting"}
    <3>1. request[b] # Undefined /\ request[b].entity # e
      BY <2>1 DEF IInv, StageInv, Change, Busy, GuardedUse
    <3>2. entity'[request[b].entity] = entity[request[b].entity]
      BY <1>2, <3>1, RequestType DEF IInv, TypeOK
    <3> QED
      BY <1>0, <3>2 DEF IInv, StageInv, VersionInv, RequestInv, AnswerInv
  <2>2. CASE pc[b] \notin {"built", "waiting"}
    <3>1. pc[b] # "idle" => request[b].entity \in Entities
      BY RequestType DEF IInv, StageInv
    <3>2. pc[b] # "idle" => entity'[request[b].entity] # Undefined
      BY <1>2, <3>1 DEF IInv, TypeOK, StageInv
    <3> QED
      BY <1>0, <2>2, <3>2 DEF IInv, StageInv, VersionInv, RequestInv, AnswerInv
  <2> QED
    BY <2>1, <2>2
<1>5. (\A x \in Entities : EntityInv(x)') /\ RemoteStateIsKnown'
  BY <1>2 DEF IInv, TypeOK, EntityInv, RemoteStateIsKnown, Change
<1> QED
  BY <1>3, <1>4, <1>5 DEF IInv

\* A payload, and what it has to do with the entity it is made from.
LEMMA PayloadOfEntity ==
  ASSUME IInv, GuardedUse, NEW e \in Entities, NEW o \in BuildOptions, entity[e] # Undefined
  PROVE  LET payload == GetPayload(e, o) IN
           /\ payload \in Payload /\ DOMAIN payload \subseteq Fields
           /\ \A f \in DOMAIN payload : payload[f] = entity[e].local[f]
           /\ \A f \in Fields \ DOMAIN payload : f \notin GetUpdatedPropertyNames(e)
<1> DEFINE names == IF o.put THEN Fields
                    ELSE (GetUpdatedPropertyNames(e) \cup o.required) \ o.ignored
<1>1. o \in Options /\ o.ignored = {}
  BY DEF GuardedUse
<1>2. names \in SUBSET Fields
  BY <1>1 DEF GetUpdatedPropertyNames, Options
<1>3. entity[e].local \in [Fields -> Values]
  BY EntityType DEF IInv, State
<1>4. GetPayload(e, o) = [f \in names |-> entity[e].local[f]]
  BY DEF GetPayload
<1>5. GetPayload(e, o) \in [names -> Values]
  BY <1>2, <1>3, <1>4
<1>6. GetPayload(e, o) \in Payload
  BY <1>2, <1>5, PayloadType
<1>7. \A f \in Fields \ names : f \notin GetUpdatedPropertyNames(e)
  BY <1>1
<1> QED
  BY <1>2, <1>4, <1>6, <1>7

\* The request records what the application has changed, and the identifier as it is.
LEMMA BuildPreserves ==
  ASSUME IInv, GuardedUse, NEW e \in Entities, NEW b \in Builders, NEW o \in BuildOptions,
         Build(b, e, o)
  PROVE  IInv'
<1> DEFINE r == [entity |-> e, payload |-> GetPayload(e, o),
                 changed |-> GetUpdatedPropertyNames(e),
                 eTag |-> entity[e].versionIdentifier,
                 versionIdentifierIgnored |-> o.versionIdentifierIgnored]
<1>1. pc[b] = "idle" /\ entity[e] # Undefined
  BY DEF Build
<1>2. request' = [request EXCEPT ![b] = r] /\ pc' = [pc EXCEPT ![b] = "built"]
  BY DEF Build
<1>3. o \in Options /\ ~o.versionIdentifierIgnored
  BY DEF GuardedUse
<1>4. r \in Request /\ r # Undefined
  BY <1>1, <1>3, PayloadOfEntity, EntityType
     DEF IInv, Request, Options, GetUpdatedPropertyNames
<1>5. TypeOK'
  BY <1>2, <1>4 DEF IInv, TypeOK, Build, network
<1>6. ASSUME NEW x \in Builders
      PROVE  StageInv(x)' /\ VersionInv(x)' /\ RequestInv(x)' /\ AnswerInv(x)'
  <2>1. CASE x # b
    <3>1. request'[x] = request[x] /\ pc'[x] = pc[x]
      BY <1>2, <2>1 DEF IInv, TypeOK
    <3> QED
      BY <3>1 DEF IInv, StageInv, VersionInv, RequestInv, AnswerInv, Build, network
  <2>2. CASE x = b
    <3>1. request'[b] = r /\ pc'[b] = "built"
      BY <1>2 DEF IInv, TypeOK
    <3>2. late[b] \in Nat /\ applied[b] \in Nat
      BY DEF IInv, TypeOK
    <3>3. StageInv(b)'
      BY <1>1, <1>4, <3>1, <3>2 DEF IInv, StageInv, Build, network
    <3>4. VersionInv(b)'
      <4>1. applied[b] = 0
        BY <1>1, <3>2 DEF IInv, StageInv
      <4>2. r.eTag # Undefined /\ r.eTag <= server.version
        BY <1>1 DEF IInv, TypeOK, EntityInv, GuardedUse
      <4> QED
        BY <1>3, <3>1, <4>1, <4>2 DEF VersionInv, Build
    <3>5. RequestInv(b)'
      <4> SUFFICES ASSUME entity[e].versionIdentifier = server.version
                   PROVE  /\ \A f \in DOMAIN r.payload \ r.changed :
                               r.payload[f] = server.state[f]
                          /\ \A f \in Fields :
                               entity[e].local[f] =
                                 IF f \in DOMAIN r.payload THEN r.payload[f]
                                                           ELSE server.state[f]
        BY <3>1 DEF RequestInv, Build
      <4>1. entity[e].remoteState = server.state
        BY <1>1 DEF IInv, RemoteStateIsKnown
      <4>2. \A f \in Fields \ GetUpdatedPropertyNames(e) : entity[e].local[f] = server.state[f]
        BY <4>1 DEF GetUpdatedPropertyNames
      <4> QED
        BY <1>1, <4>2, PayloadOfEntity
    <3>6. AnswerInv(b)'
      BY <1>1, <3>1 DEF IInv, StageInv, AnswerInv, Build, network
    <3> QED
      BY <2>2, <3>3, <3>4, <3>5, <3>6
  <2> QED
    BY <2>1, <2>2
<1>7. (\A d \in Entities : EntityInv(d)') /\ RemoteStateIsKnown'
  BY DEF IInv, EntityInv, RemoteStateIsKnown, Build
<1> QED
  BY <1>5, <1>6, <1>7 DEF IInv

-----------------------------------------------------------------------------
(* Requests under way                                                      *)

\* A request that is guarded is accepted under the current identifier only.
LEMMA AcceptsCurrent ==
  ASSUME IInv, GuardedUse, NEW b \in Builders, pc[b] # "idle", Accepts(b)
  PROVE  request[b].eTag = server.version
BY RequestType DEF IInv, VersionInv, StageInv, Accepts, ETagHeaders, TypeOK

\* The state of the service after it has accepted a request.
LEMMA HandleServer ==
  ASSUME IInv, GuardedUse, NEW b \in Builders, pc[b] # "idle", Handle(b), Accepts(b)
  PROVE  /\ server' \in [state : State, version : Version]
         /\ server'.version = server.version + 1
         /\ server'.state = [f \in Fields |-> IF f \in DOMAIN request[b].payload
                               THEN request[b].payload[f] ELSE server.state[f]]
         /\ applied' = [applied EXCEPT ![b] = @ + 1]
<1>1. server' = [state |-> [f \in Fields |-> IF f \in DOMAIN request[b].payload
                             THEN request[b].payload[f] ELSE server.state[f]],
                 version |-> server.version + 1]
  BY DEF Handle
<1>2. [f \in Fields |-> IF f \in DOMAIN request[b].payload
         THEN request[b].payload[f] ELSE server.state[f]] \in State
  BY RequestType DEF IInv, StageInv, TypeOK, State
<1> QED
  BY <1>1, <1>2 DEF Handle, IInv, TypeOK, Version

\* What the service does with a request, awaited or late, keeps everything but
\* what is said about its answer.
LEMMA HandleKeeps ==
  ASSUME IInv, GuardedUse, NEW b \in Builders, pc[b] # "idle", Handle(b),
         UNCHANGED <<entity, request, pc>>
  PROVE  /\ server' \in [state : State, version : Version]
         /\ applied' \in [Builders -> Nat]
         /\ server.version <= server'.version
         /\ \A x \in Builders : applied[x] <= applied'[x]
         /\ \A x \in Builders \ {b} : applied'[x] = applied[x]
         /\ \A x \in Builders : RequestInv(x)' /\ VersionInv(x)'
         /\ \A e \in Entities : EntityInv(e)'
         /\ RemoteStateIsKnown'
         /\ server'.version = server.version => server' = server
         /\ server' # server => server'.version = server.version + 1
<1>0. server.version \in Nat /\ applied \in [Builders -> Nat]
  BY DEF IInv, TypeOK, Version
<1>1. CASE Accepts(b)
  <2>1. /\ server' \in [state : State, version : Version]
        /\ server'.version = server.version + 1
        /\ applied' = [applied EXCEPT ![b] = @ + 1]
    BY <1>1, HandleServer
  <2>2. applied[b] = 0
    BY <1>0, <1>1, AcceptsCurrent DEF IInv, VersionInv
  <2>3. ASSUME NEW x \in Builders
        PROVE  VersionInv(x)'
    <3>1. pc[x] # "idle" => /\ request'[x].eTag # Undefined
                            /\ request'[x].eTag < server'.version
                            /\ ~request'[x].versionIdentifierIgnored
      BY <2>1, VersionMoves
    <3>2. pc[x] # "idle" => applied'[x] <= 1
      BY <1>0, <2>1, <2>2 DEF IInv, VersionInv
    <3>3. pc[x] # "idle" => request'[x].eTag \in Nat
      BY <3>1, RequestType DEF IInv, StageInv, Version
    <3>4. server'.version \in Nat
      BY <2>1 DEF Version
    <3> QED
      BY <3>1, <3>2, <3>3, <3>4 DEF VersionInv
  <2> QED
    BY <1>0, <2>1, <2>3, VersionMoves
<1>2. CASE ~Accepts(b)
  <2>1. UNCHANGED <<server, applied>>
    BY <1>2 DEF Handle
  <2> QED
    BY <1>0, <2>1 DEF IInv, TypeOK, RequestInv, VersionInv, EntityInv, RemoteStateIsKnown
<1> QED
  BY <1>1, <1>2

\* The answers that are there stay valid when only the service moves on.
LEMMA AnswersStay ==
  ASSUME IInv, NEW b \in Builders, UNCHANGED <<entity, request>>,
         answer'[b] = answer[b], applied[b] <= applied'[b], applied'[b] \in Nat,
         server' \in [state : State, version : Version],
         \/ server' = server
         \/ server'.version = server.version + 1
  PROVE  AnswerInv(b)'
<1>1. server.version \in Nat /\ applied[b] \in Nat
  BY DEF IInv, TypeOK, Version
<1>2. answer[b] # Undefined => answer[b].eTag \in Nat \cup {Undefined}
  BY DEF IInv, TypeOK, Answer, Version
<1>3. server'.version # Undefined
  BY DEF Version
<1> QED
  BY <1>1, <1>2, <1>3 DEF IInv, AnswerInv

\* The service accepts the attempt that is waited for only with its current version.
LEMMA HandleAwaitedPreserves ==
  ASSUME IInv, GuardedUse, NEW b \in Builders, NEW withETag \in BOOLEAN,
         HandleAwaited(b, withETag)
  PROVE  IInv'
<1> DEFINE a == [ok   |-> Accepts(b),
                 eTag |-> IF Accepts(b) /\ withETag THEN ETagOf(server.version + 1)
                                                    ELSE Undefined]
<1>1. /\ awaited[b] /\ Handle(b) /\ answer' = [answer EXCEPT ![b] = a]
      /\ awaited' = [awaited EXCEPT ![b] = FALSE]
      /\ UNCHANGED <<entity, request, pc, attempts, late>>
  BY DEF HandleAwaited
<1>2. pc[b] = "waiting"
  BY <1>1 DEF IInv, StageInv
<1>3. a \in Answer /\ a # Undefined
  <2>1. Accepts(b) \in BOOLEAN
    BY DEF Accepts
  <2>2. server.version + 1 \in Version
    BY DEF IInv, TypeOK, Version
  <2>3. a.eTag \in Version \cup {Undefined}
    BY <2>2 DEF ETagOf
  <2> QED
    BY <2>1, <2>3 DEF Answer
<1>4. TypeOK'
  BY <1>1, <1>2, <1>3, HandleKeeps DEF IInv, TypeOK
<1>5. ASSUME NEW x \in Builders
      PROVE  StageInv(x)'
  BY <1>1, <1>2, <1>3, HandleKeeps DEF IInv, TypeOK, StageInv
<1>6. ASSUME NEW x \in Builders, x # b
      PROVE  AnswerInv(x)'
  <2>1. answer'[x] = answer[x]
    BY <1>1, <1>6 DEF IInv, TypeOK
  <2>2. applied'[x] \in Nat
    BY <1>1, <1>2, HandleKeeps
  <2> QED
    BY <1>1, <1>2, <2>1, <2>2, HandleKeeps, AnswersStay
<1>7. AnswerInv(b)'
  <2>1. answer'[b] = a
    BY <1>1 DEF IInv, TypeOK
  <2> SUFFICES ASSUME Accepts(b)
               PROVE  /\ applied'[b] > 0
                      /\ a.eTag # Undefined => a.eTag <= server'.version
                      /\ a.eTag = server'.version => entity[request[b].entity].local = server'.state
    BY <1>1, <2>1 DEF AnswerInv
  <2>2. /\ server'.version = server.version + 1
        /\ server'.state = [f \in Fields |-> IF f \in DOMAIN request[b].payload
                              THEN request[b].payload[f] ELSE server.state[f]]
        /\ applied' = [applied EXCEPT ![b] = @ + 1]
    BY <1>1, <1>2, HandleServer
  <2>3. server.version \in Nat /\ applied \in [Builders -> Nat]
    BY DEF IInv, TypeOK, Version
  <2>4. \A f \in Fields : entity[request[b].entity].local[f] = server'.state[f]
    BY <1>2, <2>2, AcceptsCurrent DEF IInv, RequestInv
  <2>5. entity[request[b].entity].local \in State
    BY <1>2, RequestType, EntityType DEF IInv, StageInv
  <2>6. entity[request[b].entity].local = server'.state
    BY <2>2, <2>4, <2>5 DEF State
  <2>7. applied'[b] > 0
    BY <2>2, <2>3
  <2>8. a.eTag # Undefined => a.eTag <= server'.version
    BY <2>2, <2>3 DEF ETagOf
  <2> QED
    BY <2>6, <2>7, <2>8
<1> QED
  BY <1>1, <1>2, <1>4, <1>5, <1>6, <1>7, HandleKeeps DEF IInv

\* The same holds for an attempt nobody waits for any more.
LEMMA HandleLatePreserves ==
  ASSUME IInv, GuardedUse, NEW b \in Builders, HandleLate(b)
  PROVE  IInv'
<1>1. /\ late[b] > 0 /\ Handle(b)
      /\ late' = [late EXCEPT ![b] = @ - 1]
      /\ UNCHANGED <<entity, request, pc, attempts, awaited, answer>>
  BY DEF HandleLate
<1>2. pc[b] # "idle"
  BY <1>1 DEF IInv, StageInv
<1>3. TypeOK'
  BY <1>1, <1>2, HandleKeeps DEF IInv, TypeOK
<1>4. ASSUME NEW x \in Builders
      PROVE  StageInv(x)' /\ AnswerInv(x)'
  <2>1. late[x] \in Nat /\ applied[x] \in Nat /\ late'[x] \in Nat /\ applied'[x] \in Nat
    BY <1>3 DEF IInv, TypeOK
  <2>2. StageInv(x)'
    BY <1>1, <1>2, <2>1, HandleKeeps DEF IInv, TypeOK, StageInv
  <2>3. AnswerInv(x)'
    BY <1>1, <1>2, <2>1, HandleKeeps, AnswersStay
  <2> QED
    BY <2>2, <2>3
<1> QED
  BY <1>1, <1>2, <1>3, <1>4, HandleKeeps DEF IInv

\* Another client's write outdates all identifiers.
LEMMA ForeignWritePreserves ==
  ASSUME IInv, GuardedUse, NEW f \in Fields, NEW value \in Values, ForeignWrite(f, value)
  PROVE  IInv'
<1>1. /\ server' \in [state : State, version : Version]
      /\ server'.version = server.version + 1
  BY DEF ForeignWrite, IInv, TypeOK, State, Version
<1>2. UNCHANGED <<entity, request, pc, attempts, awaited, late, answer, applied>>
  BY DEF ForeignWrite, network
<1>3. TypeOK'
  BY <1>1, <1>2 DEF IInv, TypeOK
<1>4. ASSUME NEW b \in Builders
      PROVE  StageInv(b)' /\ VersionInv(b)' /\ AnswerInv(b)'
  <2>1. server.version \in Nat /\ server'.version \in Nat /\ applied[b] \in Nat
    BY <1>1 DEF IInv, TypeOK, Version
  <2>2. pc[b] # "idle" => request[b].eTag \in Nat
    BY RequestType DEF IInv, StageInv, VersionInv, Version
  <2>3. VersionInv(b)'
    BY <1>1, <1>2, <2>1, <2>2 DEF IInv, VersionInv
  <2>4. AnswerInv(b)'
    BY <1>1, <1>2, <2>1, AnswersStay
  <2> QED
    BY <1>2, <2>3, <2>4 DEF IInv, StageInv
<1> QED
  BY <1>1, <1>2, <1>3, <1>4, VersionMoves DEF IInv

-----------------------------------------------------------------------------
(* Attempts and the end of an update                                       *)

\* Sending changes neither the entity nor the service.
LEMMA ExecutePreserves ==
  ASSUME IInv, GuardedUse, NEW b \in Builders, Execute(b)
  PROVE  IInv'
<1>1. /\ pc[b] = "built"
      /\ \/ pc' = [pc EXCEPT ![b] = "resolved"] /\ UNCHANGED <<attempts, awaited>>
         \/ /\ pc' = [pc EXCEPT ![b] = "waiting"]
            /\ attempts' = [attempts EXCEPT ![b] = 1]
            /\ awaited' = [awaited EXCEPT ![b] = TRUE]
      /\ UNCHANGED <<server, entity, request, late, answer, applied>>
  BY DEF Execute
<1>2. TypeOK'
  <2>1. awaited' \in [Builders -> BOOLEAN]
    BY <1>1, Zenon DEF IInv, TypeOK
  <2> QED
    BY <1>1, <2>1 DEF IInv, TypeOK
<1>3. ASSUME NEW x \in Builders
      PROVE  StageInv(x)' /\ VersionInv(x)' /\ RequestInv(x)' /\ AnswerInv(x)'
  <2>1. CASE x # b
    <3>1. pc'[x] = pc[x] /\ awaited'[x] = awaited[x]
      BY <1>1, <2>1 DEF IInv, TypeOK
    <3> QED
      BY <1>1, <3>1 DEF IInv, StageInv, VersionInv, RequestInv, AnswerInv
  <2>2. CASE x = b
    <3>1. \/ pc'[b] = "resolved" /\ awaited'[b] = awaited[b]
          \/ pc'[b] = "waiting"
      BY <1>1 DEF IInv, TypeOK
    <3> QED
      BY <1>1, <2>2, <3>1 DEF IInv, StageInv, VersionInv, RequestInv, AnswerInv
  <2> QED
    BY <2>1, <2>2
<1> QED
  BY <1>1, <1>2, <1>3 DEF IInv, EntityInv, RemoteStateIsKnown

\* Giving up an attempt: its answer is gone, a copy of it may still be accepted.
LEMMA GiveUpPreserves ==
  ASSUME IInv, NEW b \in Builders, Retry(b) \/ Fail(b)
  PROVE  IInv'
<1>1. /\ pc[b] = "waiting"
      /\ \/ /\ UNCHANGED pc
            /\ attempts' = [attempts EXCEPT ![b] = @ + 1]
            /\ awaited' = [awaited EXCEPT ![b] = TRUE]
         \/ /\ pc' = [pc EXCEPT ![b] = "rejected"]
            /\ awaited' = [awaited EXCEPT ![b] = FALSE]
            /\ UNCHANGED attempts
      /\ \/ late' = [late EXCEPT ![b] = @ + 1]
         \/ UNCHANGED late
      /\ answer' = [answer EXCEPT ![b] = Undefined]
      /\ UNCHANGED <<server, entity, request, applied>>
  BY DEF Retry, Fail, GiveUp
<1>2. TypeOK'
  <2>1. awaited' \in [Builders -> BOOLEAN]
    BY <1>1, Zenon DEF IInv, TypeOK
  <2> QED
    BY <1>1, <2>1 DEF IInv, TypeOK
<1>3. ASSUME NEW x \in Builders
      PROVE  StageInv(x)' /\ VersionInv(x)' /\ RequestInv(x)' /\ AnswerInv(x)'
  <2>1. CASE x # b
    <3>1. /\ pc'[x] = pc[x] /\ awaited'[x] = awaited[x]
          /\ answer'[x] = answer[x] /\ late'[x] = late[x]
      BY <1>1, <2>1 DEF IInv, TypeOK
    <3> QED
      BY <1>1, <3>1 DEF IInv, StageInv, VersionInv, RequestInv, AnswerInv
  <2>2. CASE x = b
    <3>1. /\ \/ pc'[b] = "waiting"
             \/ pc'[b] = "rejected" /\ ~awaited'[b]
          /\ answer'[b] = Undefined
      BY <1>1 DEF IInv, TypeOK
    <3> QED
      BY <1>1, <2>2, <3>1 DEF IInv, StageInv, VersionInv, RequestInv, AnswerInv
  <2> QED
    BY <2>1, <2>2
<1> QED
  BY <1>1, <1>2, <1>3 DEF IInv, EntityInv, RemoteStateIsKnown

\* The identifier an accepted update leaves behind; it is the current one only
\* if the answer brought it.
LEMMA NextIdentifier ==
  ASSUME IInv, NEW b \in Builders, pc[b] # "idle", answer[b] # Undefined, answer[b].ok,
         NEW old
  PROVE  LET id == SetVersionIdentifier(old, Or(answer[b].eTag, request[b].eTag)) IN
           /\ id \in Version /\ id # Undefined /\ id <= server.version
           /\ id = server.version => id = answer[b].eTag
<1>1. request[b].eTag \in Version /\ request[b].eTag < server.version
  BY RequestType DEF IInv, StageInv, VersionInv, AnswerInv
<1>2. answer[b].eTag \in Version \cup {Undefined}
  BY DEF IInv, TypeOK, Answer
<1>3. server.version \in Nat
  BY DEF IInv, TypeOK, Version
<1>4. Undefined \notin Version
  OBVIOUS
<1>5. answer[b].eTag # Undefined => answer[b].eTag <= server.version
  BY DEF IInv, AnswerInv
<1> QED
  BY <1>1, <1>2, <1>3, <1>4, <1>5 DEF SetVersionIdentifier, Or, Version

\* The answer brings the entity and its remote state up to the version it names.
LEMMA ReceivePreserves ==
  ASSUME IInv, GuardedUse, NEW b \in Builders, Receive(b)
  PROVE  IInv'
<1> DEFINE e == request[b].entity
<1>1. /\ pc[b] = "waiting" /\ answer[b] # Undefined
      /\ answer' = [answer EXCEPT ![b] = Undefined]
      /\ UNCHANGED <<server, request, attempts, awaited, late, applied>>
      /\ \/ pc' = [pc EXCEPT ![b] = "resolved"] \/ pc' = [pc EXCEPT ![b] = "rejected"]
  BY DEF Receive
<1>2. e \in Entities /\ entity[e] \in Entity /\ entity[e] # Undefined
  BY <1>1, RequestType, EntityType DEF IInv, StageInv
<1>3. PICK d \in Entity :
        /\ entity' = [entity EXCEPT ![e] = d]
        /\ d.local = entity[e].local
        /\ d.versionIdentifier # Undefined /\ d.versionIdentifier <= server.version
        /\ d.versionIdentifier = server.version => d.remoteState = server.state
  <2>1. CASE answer[b].ok
    <3> DEFINE id == SetVersionIdentifier(entity[e].versionIdentifier,
                                          Or(answer[b].eTag, request[b].eTag))
               d == [entity[e] EXCEPT !.remoteState = entity[e].local, !.versionIdentifier = id]
    <3>1. /\ id \in Version /\ id # Undefined /\ id <= server.version
          /\ id = server.version => id = answer[b].eTag
      BY <1>1, <2>1, NextIdentifier
    <3>2. id = server.version => entity[e].local = server.state
      BY <1>1, <2>1, <3>1 DEF IInv, AnswerInv
    <3>3. entity' = [entity EXCEPT ![e] = d]
      BY <1>2, <2>1 DEF Receive, SetOrInitializeRemoteState, IInv, TypeOK, Entity
    <3>4. d \in Entity /\ d.local = entity[e].local
          /\ d.remoteState = entity[e].local /\ d.versionIdentifier = id
      BY <1>2, <3>1 DEF Entity
    <3> QED
      BY <3>1, <3>2, <3>3, <3>4
  <2>2. CASE ~answer[b].ok
    <3>1. UNCHANGED entity
      BY <2>2 DEF Receive
    <3>2. entity[e].versionIdentifier # Undefined
      BY <1>2 DEF IInv, TypeOK, GuardedUse
    <3> QED
      BY <1>2, <3>1, <3>2 DEF IInv, TypeOK, EntityInv, RemoteStateIsKnown
  <2> QED
    BY <2>1, <2>2
<1>4. d # Undefined
  OBVIOUS
<1>5. \A x \in Entities : /\ entity'[x] # Undefined <=> entity[x] # Undefined
                          /\ entity[x] # Undefined => entity'[x].local = entity[x].local
  BY <1>2, <1>3, <1>4 DEF IInv, TypeOK
<1>6. TypeOK'
  BY <1>1, <1>3, <1>4 DEF IInv, TypeOK
<1>7. ASSUME NEW x \in Builders
      PROVE  StageInv(x)' /\ VersionInv(x)' /\ RequestInv(x)' /\ AnswerInv(x)'
  <2>1. pc[x] # "idle" => request[x].entity \in Entities
    BY RequestType DEF IInv, StageInv
  <2>2. /\ pc'[x] = pc[x] \/ (x = b /\ pc'[x] \in {"resolved", "rejected"})
        /\ answer'[x] = IF x = b THEN Undefined ELSE answer[x]
    BY <1>1 DEF IInv, TypeOK
  <2>3. x = b => ~awaited[x]
    BY <1>1 DEF IInv, StageInv
  <2>4. StageInv(x)'
    BY <1>1, <1>5, <2>1, <2>2, <2>3 DEF IInv, StageInv
  <2>5. VersionInv(x)'
    BY <1>1, <2>2 DEF IInv, VersionInv
  <2>6. RequestInv(x)'
    BY <1>1, <1>5, <2>1, <2>2 DEF IInv, RequestInv, StageInv
  <2>7. AnswerInv(x)'
    BY <1>1, <1>5, <2>1, <2>2 DEF IInv, AnswerInv, StageInv
  <2> QED
    BY <2>4, <2>5, <2>6, <2>7
<1>8. (\A x \in Entities : EntityInv(x)') /\ RemoteStateIsKnown'
  BY <1>1, <1>3 DEF IInv, TypeOK, EntityInv, RemoteStateIsKnown
<1> QED
  BY <1>6, <1>7, <1>8 DEF IInv

-----------------------------------------------------------------------------
(* The theorems                                                            *)

\* Every step keeps the invariant, if updates are guarded.
LEMMA NextPreserves == GuardedUse /\ IInv /\ [Next]_vars => IInv'
<1> SUFFICES ASSUME GuardedUse, IInv, [Next]_vars PROVE IInv'
  OBVIOUS
<1>1. ASSUME NEW e \in Entities, Read(e)
      PROVE  IInv'
  BY <1>1, ReadPreserves
<1>2. ASSUME NEW e \in Entities, NEW f \in Fields, NEW value \in Values, Change(e, f, value)
      PROVE  IInv'
  BY <1>2, ChangePreserves
<1>3. ASSUME NEW e \in Entities, NEW b \in Builders, NEW o \in BuildOptions, Build(b, e, o)
      PROVE  IInv'
  BY <1>3, BuildPreserves
<1>4. ASSUME NEW b \in Builders, Execute(b)
      PROVE  IInv'
  BY <1>4, ExecutePreserves
<1>5. ASSUME NEW b \in Builders, NEW withETag \in BOOLEAN, HandleAwaited(b, withETag)
      PROVE  IInv'
  BY <1>5, HandleAwaitedPreserves
<1>6. ASSUME NEW b \in Builders, HandleLate(b)
      PROVE  IInv'
  BY <1>6, HandleLatePreserves
<1>7. ASSUME NEW b \in Builders, Retry(b) \/ Fail(b)
      PROVE  IInv'
  BY <1>7, GiveUpPreserves
<1>8. ASSUME NEW b \in Builders, Receive(b)
      PROVE  IInv'
  BY <1>8, ReceivePreserves
<1>9. ASSUME NEW f \in Fields, NEW value \in Values, ForeignWrite(f, value)
      PROVE  IInv'
  BY <1>9, ForeignWritePreserves
<1>10. CASE UNCHANGED vars
  BY <1>10 DEF vars, network, IInv, TypeOK, StageInv, VersionInv, RequestInv, AnswerInv,
               EntityInv, RemoteStateIsKnown
<1> QED
  BY <1>1, <1>2, <1>3, <1>4, <1>5, <1>6, <1>7, <1>8, <1>9, <1>10 DEF Next

\* The inductive invariant, from which the properties of updates follow.
THEOREM UpdateInvariant == GuardedUse => (Spec => []IInv)
<1> SUFFICES ASSUME GuardedUse PROVE Spec => []IInv
  OBVIOUS
<1>1. IInv /\ [Next]_vars => IInv'
  BY NextPreserves
<1> QED
  BY <1>1, InitIInv, PTL DEF Spec

\* Types of entities, requests and answers; an entity that was read from a
\* service with ETags never loses its identifier.
THEOREM UpdateTypes == GuardedUse => (Spec => []TypeOK)
<1> SUFFICES ASSUME GuardedUse PROVE Spec => []TypeOK
  OBVIOUS
<1>1. IInv => TypeOK
  BY DEF IInv
<1> QED
  BY <1>1, UpdateInvariant, PTL

\* setOrInitializeRemoteState() and setVersionIdentifier(): an entity with the
\* current identifier knows the state of the service.
THEOREM UpdateRemoteState == GuardedUse => (Spec => []RemoteStateIsKnown)
<1> SUFFICES ASSUME GuardedUse PROVE Spec => []RemoteStateIsKnown
  OBVIOUS
<1>1. IInv => RemoteStateIsKnown
  BY DEF IInv
<1> QED
  BY <1>1, UpdateInvariant, PTL

\* Retries and late attempts: the service accepts an update once at most.
THEOREM UpdateAppliedOnce == GuardedUse => (Spec => []AppliedAtMostOnce)
<1> SUFFICES ASSUME GuardedUse PROVE Spec => []AppliedAtMostOnce
  OBVIOUS
<1>1. IInv => AppliedAtMostOnce
  BY DEF IInv, StageInv, VersionInv, AppliedAtMostOnce
<1> QED
  BY <1>1, UpdateInvariant, PTL

\* What the service does with one request changes only what was changed.
LEMMA HandleChangesChanged ==
  ASSUME GuardedUse, IInv, NEW b \in Builders, pc[b] # "idle", Handle(b),
         NEW x \in Builders, applied'[x] # applied[x],
         NEW f \in Fields \ request[x].changed
  PROVE  server'.state[f] = server.state[f]
<1>1. Accepts(b)
  BY DEF Handle
<1>2. x = b
  <2>1. applied \in [Builders -> Nat] /\ applied' = [applied EXCEPT ![b] = @ + 1]
    BY <1>1, HandleServer DEF IInv, TypeOK
  <2> QED
    BY <2>1
<1>3. server'.state[f] = IF f \in DOMAIN request[b].payload
                           THEN request[b].payload[f] ELSE server.state[f]
  <2>1. server'.state = [g \in Fields |-> IF g \in DOMAIN request[b].payload
                          THEN request[b].payload[g] ELSE server.state[g]]
    BY <1>1, HandleServer
  <2> QED
    BY <2>1
<1>4. \A g \in DOMAIN request[b].payload \ request[b].changed :
        request[b].payload[g] = server.state[g]
  BY <1>1, AcceptsCurrent DEF IInv, RequestInv
<1> QED
  BY <1>2, <1>3, <1>4

\* if-match: an update writes no property the application has not changed, by
\* PATCH as by PUT, so that it does not undo what others wrote.
THEOREM UpdateLosesNothing == GuardedUse => (Spec => NoLostUpdate)
<1> SUFFICES ASSUME GuardedUse PROVE Spec => NoLostUpdate
  OBVIOUS
<1> DEFINE Keeps == \A b \in Builders : applied'[b] # applied[b] /\ Guarded(b) =>
                      \A f \in Fields \ request[b].changed : server'.state[f] = server.state[f]
<1>1. IInv /\ [Next]_vars => [Keeps]_vars
  <2> SUFFICES ASSUME IInv, Next, applied' # applied PROVE Keeps
    BY DEF vars
  <2>1. PICK b \in Builders : (\E withETag \in BOOLEAN : HandleAwaited(b, withETag)) \/ HandleLate(b)
    BY DEF Next, Read, Change, Build, Execute, Retry, Fail, GiveUp, Receive, ForeignWrite
  <2>2. pc[b] # "idle" /\ Handle(b)
    BY <2>1 DEF IInv, StageInv, HandleAwaited, HandleLate
  <2> QED
    BY <2>2, HandleChangesChanged
<1> QED
  BY <1>1, UpdateInvariant, PTL DEF Spec, NoLostUpdate
=============================================================================
