--------------------------- MODULE Authentication ---------------------------
(***************************************************************************)
(* Establishing a connection (cmap/establish.rs, establish/handshake.rs):  *)
(* the stream, the hello with its speculative authentication, the          *)
(* conversation of the mechanism (client/auth.rs and client/auth/), and    *)
(* the reauthentication of an established connection.  The steps of the    *)
(* connections interleave at every message, at the mutex of the OIDC       *)
(* callback and at the callback itself.                                    *)
(*                                                                         *)
(* Nonces, proofs and signatures are abstract: a reply says which of the   *)
(* things the driver verifies hold of it.  A token is a number, in the     *)
(* order the identity provider issues them.                                *)
(***************************************************************************)
EXTENDS Integers, Sequences, FiniteSets, Credentials

CONSTANTS
    Sockets,      \* the connections of the pools of one process
    Setups,       \* the clients and servers considered, see AInit
    MaxTokens,    \* bound: tokens the identity provider issues
    MaxEvents,    \* bound: tokens that expire, passwords set anew, services cleared
    MaxRounds     \* the challenges GSSAPI answers: 10 in the code

VARIABLES
    setup,      \* fixed by Init: the credential of each connection, its server, the callback
    link,       \* the connections
    cache,      \* Cache of CallbackInner, shared by the clones of a Credential
    holder,     \* who holds oidc_callback.inner
    salted,     \* CREDENTIAL_CACHE: entries and the salted passwords kept for them
    world       \* external: the servers, the identity provider, the generations of the pool

avars == <<setup, link, cache, holder, salted, world>>

Services == {"sv1", "sv2"}

\* A load balancer names one of the services or none; None is neither a
\* connection nor a service.
ASSUME SetupsAssumption ==
    /\ \A s \in Setups : s.server.services \subseteq Services \cup {None}
    /\ None \notin Sockets
    /\ None \notin Services

Cred(c) == setup.creds[c]
Server == setup.server

EmptyCache == [access_token |-> None, refresh_token |-> FALSE, idp |-> FALSE, token_gen_id |-> 0]

\* generation: PoolGeneration when the pending connection was created, then
\* that of the established connection.  first: the FirstRound.  proof: the
\* salted password a SCRAM conversation uses, entry the key it is kept under.
\* authed and cleared are history: the server has authenticated the connection,
\* and the services the pool was cleared for since the connection began.
NewLink ==
    [pc |-> "idle", hello |-> FALSE, service |-> None, snapshot |-> None, generation |-> None,
     compressor |-> None, mech |-> None, first |-> None, entry |-> None, proof |-> None, rounds |-> 0,
     token |-> None, token_gen_id |-> 0, broken |-> FALSE, phase |-> None,
     established |-> FALSE, authed |-> FALSE, cleared |-> {}]

AInit ==
    /\ setup \in Setups
    /\ link = [c \in Sockets |-> NewLink]
    /\ cache = EmptyCache
    /\ holder = None
    /\ salted = {}
    /\ world = [version |-> 0, issued |-> 0, expired |-> {}, gens |-> [s \in Services |-> 0], events |-> 0]

----------------------------------------------------------------------------
(* The credential and the user it names.                                   *)

resolved_source(cr) == IF cr.mechanism = None THEN "admin" ELSE default_source(cr.mechanism, None)

\* The database a conversation runs against.
SourceUsed(cr) == IF cr.source # None THEN cr.source ELSE resolved_source(cr)

\* The user whose mechanisms the hello asks for, if it asks.
Negotiated(cr) ==
    IF cr.username # None /\ cr.mechanism = None THEN <<resolved_source(cr), cr.username>> ELSE None

\* ScramVersion::client_auth_info.
client_auth_info(cr) == cr.username # None /\ cr.password # None /\ cr.properties = None

from_stream_description(mechs) == IF Sha256 \in mechs THEN Sha256 ELSE Sha1

\* external: the users of the server, and what saslSupportedMechs answers.
UserAt(id) == IF id \in DOMAIN Server.users THEN Server.users[id] ELSE [password |-> None, mechs |-> {}]
UserOf(cr) == UserAt(<<SourceUsed(cr), cr.username>>)
SupportedMechs(cr) == IF Negotiated(cr) = None THEN {} ELSE UserAt(Negotiated(cr)).mechs

\* external: a token the server accepts.
Accepts(t) == t \notin world.expired

----------------------------------------------------------------------------
(* The end of a handshake: the rest of establish_connection, or of the     *)
(* reauthentication, after which the connection stays in the pool unless   *)
(* its stream failed.                                                      *)

\* Mutant: a conversation ends with the mutex held.
Release_Never(c) == UNCHANGED holder

Release(c) == holder' = IF holder = c THEN None ELSE holder

\* Mutant: the generation is read when the connection is established.
Derived_Current(L) ==
    IF ~setup.loadBalanced THEN L.snapshot
    ELSE IF L.service = None THEN None
    ELSE [service |-> L.service, generation |-> world.gens[L.service]]

\* The generation a connection to a load balancer takes from the map that
\* was copied when it began.
Derived(L) ==
    IF ~setup.loadBalanced THEN L.snapshot
    ELSE IF L.service = None THEN None
    ELSE [service |-> L.service, generation |-> L.snapshot[L.service]]

Failed(L) ==
    IF L.established THEN [L EXCEPT !.pc = IF L.broken THEN "closed" ELSE "ready"]
    ELSE [L EXCEPT !.pc = "failed", !.phase = IF L.hello THEN "post_hello" ELSE "pre_hello",
                   !.generation = IF L.hello THEN Derived(L) ELSE L.snapshot]

Succeeded(L) ==
    IF L.established THEN [L EXCEPT !.pc = "ready"]
    ELSE IF setup.loadBalanced /\ L.service = None THEN Failed(L)
    ELSE [L EXCEPT !.pc = "ready", !.established = TRUE, !.generation = Derived(L)]

Put(c, L) == link' = [link EXCEPT ![c] = L]

----------------------------------------------------------------------------
(* SCRAM.                                                                  *)

\* external: what a server answers to the first message of a known user; an
\* answer the protocol forbids has one field off.
ServerFirsts(m, cr) ==
    LET good == [formed |-> TRUE, done |-> FALSE, nonce |-> TRUE, i |-> "allowed",
                 salt |-> <<SourceUsed(cr), cr.username, m, world.version>>]
    IN  IF m \notin UserOf(cr).mechs THEN {}
        ELSE {good} \cup (IF Server.odd THEN {[good EXCEPT !.formed = FALSE], [good EXCEPT !.done = TRUE],
                                              [good EXCEPT !.nonce = FALSE], [good EXCEPT !.i = "low"],
                                              [good EXCEPT !.i = "high"]}
                          ELSE {})

\* ServerFirst::parse and validate.
ServerFirstParsed(r) == r.formed
ServerFirstValid(r) == ~r.done /\ r.nonce /\ r.i \notin {"low", "high"}

\* SCRAM-SHA-1 hashes the password together with the user's name.
compute_salted_password(m, cr, r) ==
    IF m = Sha1 THEN <<cr.username, cr.password, r.salt, r.i>> ELSE <<cr.password, r.salt, r.i>>

\* Mutant: the salt is left out of the key.
CacheEntry_NoSalt(m, cr, r) == [password |-> cr.password, i |-> r.i, mechanism |-> m]

CacheEntry(m, cr, r) == [password |-> cr.password, salt |-> r.salt, i |-> r.i, mechanism |-> m]

SaltedPassword(entry, m, cr, r) ==
    IF \E e \in salted : e.entry = entry THEN (CHOOSE e \in salted : e.entry = entry).password
    ELSE compute_salted_password(m, cr, r)

send_client_first(L) == [L EXCEPT !.pc = "scram_first"]

ClientFinal(L, r, entry, password) ==
    [L EXCEPT !.pc = "scram_final", !.first = r, !.entry = entry, !.proof = password]

\* authenticate_stream from the first answer to the final message.
ScramFinal(L, cr, r) ==
    IF ~client_auth_info(cr) \/ ~ServerFirstParsed(r) \/ ~ServerFirstValid(r) THEN Failed(L)
    ELSE LET entry == CacheEntry(L.mech, cr, r)
         IN  ClientFinal(L, r, entry, SaltedPassword(entry, L.mech, cr, r))

\* external: the answers to the final message.  The connection becomes an
\* authenticated one when the proof is right and the answer is in order.
ServerFinals(L, cr) ==
    LET good == [cid |-> TRUE, body |-> "verifier", done |-> TRUE]
        right == L.proof = compute_salted_password(L.mech, [cr EXCEPT !.password = UserOf(cr).password], L.first)
    IN  (IF right THEN {good} ELSE {[good EXCEPT !.body = "error"]})
        \cup (IF Server.odd THEN {[good EXCEPT !.cid = FALSE], [good EXCEPT !.body = "malformed"],
                                  [good EXCEPT !.body = "another's verifier"],
                                  [good EXCEPT !.done = FALSE]}
              ELSE {})

\* Mutant: done is not looked at.
ServerFinalValid_NoDone(r) == r.cid /\ r.body = "verifier"

\* ServerFinal::parse, validate and the check of done.
ServerFinalParsed(r) == r.body # "malformed"
ServerFinalValid(r) == r.cid /\ r.body = "verifier" /\ r.done

ScramFirstReply(c) ==
    LET L == link[c] IN
    /\ L.pc = "scram_first"
    /\ IF ServerFirsts(L.mech, Cred(c)) = {} THEN Put(c, Failed(L))
       ELSE \E r \in ServerFirsts(L.mech, Cred(c)) : Put(c, ScramFinal(L, Cred(c), r))
    /\ UNCHANGED <<setup, cache, holder, salted, world>>

\* A salted password is kept only once the server has accepted it.
ScramFinalReply(c) ==
    LET L == link[c] IN
    /\ L.pc = "scram_final"
    /\ \E r \in ServerFinals(L, Cred(c)) :
        IF ServerFinalParsed(r) /\ ServerFinalValid(r)
        THEN /\ Put(c, [Succeeded(L) EXCEPT !.authed = r = [cid |-> TRUE, body |-> "verifier", done |-> TRUE]])
             /\ salted' = IF \E e \in salted : e.entry = L.entry THEN salted
                          ELSE salted \cup {[entry |-> L.entry, password |-> L.proof]}
        ELSE Put(c, Failed(L)) /\ UNCHANGED salted
    /\ UNCHANGED <<setup, cache, holder, world>>

----------------------------------------------------------------------------
(* X.509, PLAIN, AWS and GSSAPI.                                           *)

\* external: answers to saslStart, saslContinue and authenticate.
SaslReplies ==
    LET good == [ok |-> TRUE, cid |-> TRUE, done |-> TRUE]
    IN  {good, [good EXCEPT !.ok = FALSE]}
        \cup (IF Server.odd THEN {[good EXCEPT !.cid = FALSE], [good EXCEPT !.done = FALSE]} ELSE {})

\* SaslResponse::parse.
SaslParsed(r) == r.ok

\* x509.rs looks at ok, plain.rs also at done.
SingleValid(m, r) == SaslParsed(r) /\ (m = "PLAIN" => r.done)

SingleReply(c) ==
    LET L == link[c] IN
    /\ L.pc = "single"
    /\ \E r \in SaslReplies :
        IF SingleValid(L.mech, r)
        THEN Put(c, [Succeeded(L) EXCEPT !.authed = r.ok /\ (L.mech = "PLAIN" => r.done)])
        ELSE Put(c, Failed(L))
    /\ UNCHANGED <<setup, cache, holder, salted, world>>

\* aws.rs: the first answer is validated, then the credentials are looked up,
\* in the URI or wherever the SDK finds them.
AwsFirstValid(r) == r.ok /\ r.nonce /\ r.host
get_aws_credentials(cr) == IF cr.username # None THEN {TRUE} ELSE BOOLEAN

AwsFirstReply(c) ==
    LET L == link[c] IN
    /\ L.pc = "aws_first"
    /\ \E r \in [ok : BOOLEAN, nonce : BOOLEAN, host : BOOLEAN], found \in get_aws_credentials(Cred(c)) :
        Put(c, IF AwsFirstValid(r) /\ found THEN [L EXCEPT !.pc = "aws_second"] ELSE Failed(L))
    /\ UNCHANGED <<setup, cache, holder, salted, world>>

AwsSecondValid(r) == SaslParsed(r) /\ r.cid /\ r.done

AwsSecondReply(c) ==
    LET L == link[c] IN
    /\ L.pc = "aws_second"
    /\ \E r \in SaslReplies :
        Put(c, IF AwsSecondValid(r) THEN [Succeeded(L) EXCEPT !.authed = r = [ok |-> TRUE, cid |-> TRUE, done |-> TRUE]]
               ELSE Failed(L))
    /\ UNCHANGED <<setup, cache, holder, salted, world>>

\* GssapiProperties::from_credential refuses a value it does not know.
GssapiProperties(cr) == "CANONICALIZE_HOST_NAME misspelt" \notin Properties(cr)

\* gssapi.rs: challenges are answered until the server says it is done, the
\* authenticator is complete or the rounds are used up; then one more
\* message must complete the conversation.  A step of the authenticator may
\* fail.
GssapiReply(c) ==
    LET L == link[c] IN
    /\ L.pc = "challenge"
    /\ \/ Put(c, Failed(L))
       \/ /\ L.rounds > 0
          /\ Put(c, [Succeeded(L) EXCEPT !.authed = TRUE])
       \/ \E complete \in BOOLEAN :
            IF L.rounds = MaxRounds \/ (complete /\ L.rounds > 0)
            THEN Put(c, [L EXCEPT !.pc = "wrap"])
            ELSE Put(c, [L EXCEPT !.rounds = @ + 1])
    /\ UNCHANGED <<setup, cache, holder, salted, world>>

GssapiLastReply(c) ==
    LET L == link[c] IN
    /\ L.pc = "wrap"
    /\ \E r \in SaslReplies :
        Put(c, IF SaslParsed(r) /\ r.done THEN [Succeeded(L) EXCEPT !.authed = r.ok /\ r.done] ELSE Failed(L))
    /\ UNCHANGED <<setup, cache, holder, salted, world>>

----------------------------------------------------------------------------
(* OIDC (client/auth/oidc.rs).  The mutex is held from Acquire until the   *)
(* conversation ends, messages and callbacks included.                     *)

CacheUpdate(k, t, info) ==
    [k EXCEPT !.access_token = t, !.refresh_token = setup.refresh, !.idp = @ \/ info, !.token_gen_id = @ + 1]

\* Mutant: the connection keeps its generation.
propagate_token_gen_id_Never(L) == L

propagate_token_gen_id(L) ==
    [L EXCEPT !.token_gen_id = IF @ < cache.token_gen_id THEN cache.token_gen_id ELSE @]

\* Cache::invalidate: the cache and the connection after it.
Invalidates(L, force) == force \/ L.token_gen_id >= cache.token_gen_id
InvalidCache(L, force) == IF Invalidates(L, force) THEN [cache EXCEPT !.access_token = None] ELSE cache
InvalidLink(L, force) == IF Invalidates(L, force) THEN [L EXCEPT !.token_gen_id = 0] ELSE L

\* Where the human flow goes when there is no token, or it was refused, and
\* when there is no refresh token either, or that was of no use.
WithoutRefresh(L) == IF cache.idp THEN [L EXCEPT !.pc = "callback"] ELSE [L EXCEPT !.pc = "no_token"]
WithoutToken(L) ==
    IF setup.kind = "machine" THEN [L EXCEPT !.pc = "callback"]
    ELSE IF cache.refresh_token THEN [L EXCEPT !.pc = "refresh"] ELSE WithoutRefresh(L)

\* The user's callback, or that of the environment the properties name; and
\* the human flow is for known hosts only.
HasCallback == setup.kind # "none"
AllowedHost == setup.kind = "human" => setup.allowedHost

Acquire(c) ==
    LET L == propagate_token_gen_id(link[c]) IN
    /\ link[c].pc = "lock" /\ holder = None
    /\ IF ~HasCallback
       THEN Put(c, Failed(link[c])) /\ UNCHANGED holder
       ELSE IF L.first # None
       THEN Put(c, [Succeeded(L) EXCEPT !.authed = TRUE]) /\ UNCHANGED holder
       ELSE IF ~AllowedHost
       THEN Put(c, Failed(L)) /\ UNCHANGED holder
       ELSE /\ holder' = c
            /\ Put(c, IF cache.access_token # None
                      THEN [L EXCEPT !.pc = "cached", !.token = cache.access_token]
                      ELSE WithoutToken(L))
    /\ UNCHANGED <<setup, cache, salted, world>>

\* The answer to a saslStart with a token: done, an error, or neither.
JwtReplies(L) ==
    IF L.broken THEN {"error"}
    ELSE (IF Accepts(L.token) THEN {"done"} ELSE {"error"}) \cup (IF Server.odd THEN {"pending"} ELSE {})

\* The cached token.
CachedReply(c) ==
    LET L == link[c] IN
    /\ L.pc = "cached"
    /\ \E r \in JwtReplies(L) :
        IF r = "done"
        THEN /\ Put(c, [Succeeded(L) EXCEPT !.authed = TRUE]) /\ Release(c)
             /\ UNCHANGED cache
        ELSE /\ cache' = InvalidCache(L, FALSE)
             /\ Put(c, WithoutToken(InvalidLink(L, FALSE)))
             /\ UNCHANGED holder
    /\ UNCHANGED <<setup, salted, world>>

\* What a callback may return: an error, or the next token.
Provided == {None} \cup (IF world.issued < MaxTokens THEN {world.issued + 1} ELSE {})

CallbackReturns(c) ==
    LET L == link[c] IN
    /\ L.pc \in {"callback", "refresh", "callback_two"}
    /\ \E t \in Provided :
        IF t = None THEN Put(c, Failed(L)) /\ Release(c) /\ UNCHANGED <<cache, world>>
        ELSE /\ world' = [world EXCEPT !.issued = t]
             /\ Put(c, [L EXCEPT !.token = t, !.pc = CASE @ = "callback" -> "single_step"
                                                       [] @ = "refresh" -> "refreshed"
                                                       [] OTHER -> "continue"])
             /\ cache' = IF L.pc = "callback_two" THEN CacheUpdate(cache, t, TRUE) ELSE cache
             /\ UNCHANGED holder
    /\ UNCHANGED <<setup, salted>>

\* do_single_step_function after its callback.
SingleStepReply(c) ==
    LET L == link[c] IN
    /\ L.pc = "single_step"
    /\ \E r \in JwtReplies(L) :
        IF r = "done"
        THEN Put(c, [Succeeded(L) EXCEPT !.authed = TRUE]) /\ cache' = CacheUpdate(cache, L.token, FALSE)
        ELSE Put(c, Failed(L)) /\ UNCHANGED cache
    /\ Release(c)
    /\ UNCHANGED <<setup, salted, world>>

\* authenticate_human with a token that a refresh token was good for.
RefreshedReply(c) ==
    LET L == link[c] IN
    /\ L.pc = "refreshed"
    /\ \E r \in JwtReplies(L) :
        CASE r = "done" ->
                /\ Put(c, [Succeeded(L) EXCEPT !.authed = TRUE]) /\ Release(c)
                /\ cache' = CacheUpdate(cache, L.token, FALSE)
          [] r = "pending" -> Put(c, WithoutRefresh(L)) /\ UNCHANGED <<cache, holder>>
          [] OTHER ->
                /\ cache' = InvalidCache(L, FALSE)
                /\ Put(c, WithoutRefresh(InvalidLink(L, FALSE))) /\ UNCHANGED holder
    /\ UNCHANGED <<setup, salted, world>>

\* do_two_step_function: the answer with the identity provider's address.
NoTokenReply(c) ==
    LET L == link[c] IN
    /\ L.pc = "no_token"
    /\ \/ Put(c, Failed(L)) /\ Release(c)
       \/ ~L.broken /\ Put(c, [L EXCEPT !.pc = "callback_two"]) /\ UNCHANGED holder
    /\ UNCHANGED <<setup, cache, salted, world>>

ContinueReply(c) ==
    LET L == link[c] IN
    /\ L.pc = "continue"
    /\ \E r \in JwtReplies(L) :
        Put(c, IF r = "done" THEN [Succeeded(L) EXCEPT !.authed = TRUE] ELSE Failed(L))
    /\ Release(c)
    /\ UNCHANGED <<setup, cache, salted, world>>

\* An operation meets error 391 on an established connection, and the
\* executor reauthenticates the connection before it sends the operation
\* again: the first half of oidc::reauthenticate_stream, whose lock is
\* released before authenticate_stream takes it again.
Reauthenticate(c) ==
    LET L == link[c] IN
    /\ L.pc = "ready" /\ L.authed /\ L.mech = Oidc /\ ~Accepts(L.token) /\ holder = None
    /\ cache' = InvalidCache(L, TRUE)
    /\ Put(c, [InvalidLink(L, TRUE) EXCEPT !.pc = "lock", !.first = None])
    /\ UNCHANGED <<setup, holder, salted, world>>

----------------------------------------------------------------------------
(* The handshake.                                                          *)

\* AuthMechanism::authenticate_stream: the first message of a conversation.
StartMechanism(L, cr) ==
    IF ~ValidCredential(L.mech, cr) THEN Failed(L)
    ELSE CASE IsScram(L.mech) -> IF client_auth_info(cr) THEN send_client_first(L) ELSE Failed(L)
           [] L.mech \in {X509, "PLAIN"} -> [L EXCEPT !.pc = "single"]
           [] L.mech = "MONGODB-AWS" ->
                IF cr.source \in {None, "$external"} THEN [L EXCEPT !.pc = "aws_first"] ELSE Failed(L)
           [] L.mech = "GSSAPI" -> IF GssapiProperties(cr) THEN [L EXCEPT !.pc = "challenge"] ELSE Failed(L)
           [] L.mech = Oidc -> [L EXCEPT !.pc = "lock"]
           [] OTHER -> Failed(L)

\* Credential::authenticate_stream after the hello: the conversation begins, or
\* goes on with the answer that came with the hello.
StartConversation(L, cr, mechs) ==
    IF L.first # None
    THEN CASE IsScram(L.mech) -> ScramFinal(L, cr, L.first)
           [] L.mech = X509   -> [Succeeded(L) EXCEPT !.authed = TRUE]
           [] OTHER           -> [L EXCEPT !.pc = "lock"]
    ELSE StartMechanism([L EXCEPT !.mech = IF cr.mechanism = None THEN from_stream_description(mechs)
                                           ELSE cr.mechanism], cr)

\* oidc::build_client_first.
OidcClientFirst == IF cache.access_token = None THEN None ELSE Oidc

\* set_speculative_auth_info: the mechanism tried with the hello, None when
\* there is none, or "error".
Speculative(cr) ==
    LET m == IF cr.mechanism = None THEN Sha256 ELSE cr.mechanism
    IN  CASE IsScram(m) -> IF client_auth_info(cr) THEN m ELSE "error"
          [] m = X509 -> m
          [] m = Oidc -> OidcClientFirst
          [] m = "MONGODB-CR" -> "error"
          [] OTHER -> None

\* The pool creates the pending connection.
Begin(c) ==
    /\ link[c].pc = "idle"
    /\ Put(c, [link[c] EXCEPT !.pc = "connecting", !.snapshot = world.gens])
    /\ UNCHANGED <<setup, cache, holder, salted, world>>

\* make_stream and build_command, which waits for the mutex of the callback.
Connect(c) ==
    LET L == link[c]
        cr == Cred(c)
        spec == IF cr = None THEN None ELSE Speculative(cr)
    IN
    /\ L.pc = "connecting"
    /\ \/ setup.losses /\ Put(c, [Failed(L) EXCEPT !.broken = TRUE])
       \/ /\ cr # None /\ cr.mechanism = Oidc => holder = None
          /\ Put(c, IF spec = "error" THEN Failed(L)
                    ELSE [L EXCEPT !.pc = "hello", !.mech = spec, !.token = IF spec = Oidc THEN cache.access_token ELSE None])
    /\ UNCHANGED <<setup, cache, holder, salted, world>>

\* external: the answers to a speculative authentication; None when the
\* server does not attempt it or it fails.
SpeculativeReplies(c) ==
    LET L == link[c] IN
    {None} \cup
    IF ~Server.speculative \/ L.mech = None THEN {}
    ELSE CASE IsScram(L.mech) -> ServerFirsts(L.mech, Cred(c))
           [] L.mech = X509 -> {"done"}
           [] OTHER -> IF Accepts(L.token) THEN {"done"} ELSE {}

\* The first compressor of the user's list that the server supports.
SharedCompressor ==
    LET shared == {k \in DOMAIN setup.compressors : setup.compressors[k] \in Server.compressors}
    IN  IF shared = {} THEN None ELSE setup.compressors[CHOOSE k \in shared : \A j \in shared : k <= j]

HelloReply(c) ==
    LET L == link[c]
        cr == Cred(c)
    IN
    /\ L.pc = "hello"
    /\ \E r \in SpeculativeReplies(c), s \in Server.services :
        LET M == [L EXCEPT !.hello = TRUE, !.service = s, !.compressor = SharedCompressor, !.first = r] IN
        Put(c, IF cr = None \/ Server.arbiter THEN Succeeded(M)
               ELSE StartConversation(M, cr, SupportedMechs(cr)))
    /\ UNCHANGED <<setup, cache, holder, salted, world>>

\* The stream fails while a message is under way.  Most conversations end
\* with it; a token that was sent counts as refused.
InFlight == {"hello", "scram_first", "scram_final", "single", "aws_first", "aws_second", "challenge", "wrap",
             "single_step", "no_token", "continue"}

StreamFails(c) ==
    LET L == [link[c] EXCEPT !.broken = TRUE] IN
    /\ setup.losses /\ ~link[c].broken
    /\ \/ L.pc \in InFlight /\ Put(c, Failed(L)) /\ Release(c)
       \/ L.pc \in {"cached", "refreshed"} /\ Put(c, L) /\ UNCHANGED holder
    /\ UNCHANGED <<setup, cache, salted, world>>

----------------------------------------------------------------------------
(* external: what happens meanwhile.                                       *)

Expire ==
    /\ \E t \in 1..world.issued : Accepts(t) /\ world' = [world EXCEPT !.expired = @ \cup {t}, !.events = @ + 1]
    /\ UNCHANGED link

SetPassword ==
    /\ DOMAIN Server.users # {}
    /\ world' = [world EXCEPT !.version = @ + 1, !.events = @ + 1]
    /\ UNCHANGED link

\* The pool is cleared for one service (see ConnectionPool).
ClearService ==
    /\ setup.loadBalanced
    /\ \E s \in Services :
        /\ world' = [world EXCEPT !.gens[s] = @ + 1, !.events = @ + 1]
        /\ link' = [c \in Sockets |-> IF link[c].pc = "idle" THEN link[c] ELSE [link[c] EXCEPT !.cleared = @ \cup {s}]]

Meanwhile ==
    /\ world.events < MaxEvents
    /\ Expire \/ SetPassword \/ ClearService
    /\ UNCHANGED <<setup, cache, holder, salted>>

\* The steps of one connection, and the answers it waits for.
Step(c) ==
    \/ Begin(c) \/ Connect(c) \/ HelloReply(c) \/ StreamFails(c)
    \/ ScramFirstReply(c) \/ ScramFinalReply(c) \/ SingleReply(c) \/ AwsFirstReply(c) \/ AwsSecondReply(c)
    \/ GssapiReply(c) \/ GssapiLastReply(c)
    \/ Acquire(c) \/ CachedReply(c) \/ CallbackReturns(c) \/ SingleStepReply(c) \/ RefreshedReply(c)
    \/ NoTokenReply(c) \/ ContinueReply(c)

ANext == (\E c \in Sockets : Step(c) \/ Reauthenticate(c)) \/ Meanwhile

\* Every answer, or the failure of the stream, arrives at last, callbacks
\* return, and the mutex of the callback is a fair one (tokio::sync::Mutex).
AFairness == \A c \in Sockets : SF_avars(Step(c))
ASpec == AInit /\ [][ANext]_avars /\ AFairness

----------------------------------------------------------------------------
(* Properties.                                                             *)

CallbackStates == {"callback", "refresh", "callback_two"}
OidcStates == CallbackStates \cup {"cached", "single_step", "refreshed", "no_token", "continue"}

\* A connection that establish_connection hands to the pool is one the server
\* has authenticated, unless there is no credential or the server is one that
\* cannot authenticate: no answer out of order, early, late or from another
\* conversation, and no speculative shortcut, lets one through.
EstablishedIsAuthenticated ==
    \A c \in Sockets :
        link[c].established /\ Cred(c) # None /\ ~Server.arbiter => link[c].authed

\* The salted password a SCRAM conversation uses, whether computed or found in
\* CREDENTIAL_CACHE, is the one of its own user, password, salt and mechanism,
\* although the cache is shared by all the clients of the process and its key
\* does not name the user.
SaltedPasswordIsOwn ==
    \A c \in Sockets :
        link[c].pc = "scram_final" =>
            link[c].proof = compute_salted_password(link[c].mech, Cred(c), link[c].first)

\* A callback is called by one connection at a time, and only when the cache
\* has no token left to try, so connections that need a token at the same time
\* share one (the lock held "so that multiple functions are not called during
\* an authentication race").
OneCallbackWhenNeeded ==
    \A c \in Sockets :
        link[c].pc \in CallbackStates =>
            /\ cache.access_token = None
            /\ \A d \in Sockets \ {c} : link[d].pc \notin CallbackStates

\* In load-balanced mode a connection, or the failure to establish it after
\* the hello, belongs to a generation that is stale exactly when the pool was
\* cleared for its service after the connection began, however late the
\* service became known.
StaleIffCleared ==
    \A c \in Sockets :
        LET L == link[c] IN
        setup.loadBalanced /\ L.generation # None /\ L.hello =>
            (L.generation.generation < world.gens[L.service]) = (L.service \in L.cleared)

\* Every attempt to establish or to reauthenticate a connection ends: the
\* mutex of the callback is given up on every path, and no conversation goes
\* on for ever.
EveryAttemptEnds ==
    \A c \in Sockets :
        link[c].pc \in {"connecting", "lock"} ~> link[c].pc \in {"ready", "failed", "closed"}

\* What the documentation of Credential::mechanism says, "If not provided, one
\* will be negotiated with the server": a user the server knows is not turned
\* away for want of a mechanism.
NegotiatesForTheUser ==
    \A c \in Sockets :
        Cred(c) # None /\ Cred(c).mechanism = None /\ link[c].pc = "scram_first" /\ UserOf(Cred(c)).mechs # {} =>
            link[c].mech \in UserOf(Cred(c)).mechs

\* What oidc::authenticate_stream says the lock is for, "so that token_gen_id
\* on the Connection always matches that in the Credential Cache", read as: it
\* matches when the authentication is over.
GenerationMatches ==
    [][\A c \in Sockets :
        link[c].pc \in OidcStates /\ link'[c].pc = "ready" /\ link'[c].authed =>
            link'[c].token_gen_id = cache'.token_gen_id]_avars
=============================================================================
