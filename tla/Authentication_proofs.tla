------------------------ MODULE Authentication_proofs ------------------------
(***************************************************************************)
(* Theorems about Authentication, for any connections, credentials,        *)
(* servers and bounds.                                                     *)
(*                                                                         *)
(* The inductive invariant AInv has a conjunct for each property.  What    *)
(* they have in common is how a step changes the record of a connection:   *)
(* Keeps says it of every step but the first three, so that each conjunct  *)
(* is carried through Keeps and not through every path of a handshake.     *)
(***************************************************************************)
EXTENDS Authentication, TLAPS

\* The default backend; a leaf that needs arithmetic or records names SMT.
USE Zenon

LinkFields ==
    {"pc", "hello", "service", "snapshot", "generation", "compressor", "mech", "first", "entry", "proof",
     "rounds", "token", "token_gen_id", "broken", "phase", "established", "authed", "cleared"}

\* The states of a connection before the answer to its hello.
Early == {"idle", "connecting", "hello"}

\* The states in which no conversation goes on.
AtRest == {"ready", "failed", "closed"}

\* The OIDC states in which the cache has no token left to try.
WithoutTokenStates == OidcStates \ {"cached", "continue"}

Shapes ==
    /\ setup \in Setups
    /\ link = [c \in Sockets |-> link[c]]
    /\ \A c \in Sockets : DOMAIN link[c] = LinkFields /\ link[c].token_gen_id \in Nat
    /\ DOMAIN cache = {"access_token", "refresh_token", "idp", "token_gen_id"}
    /\ cache.token_gen_id \in Nat
    /\ DOMAIN world = {"version", "issued", "expired", "gens", "events"}
    /\ world.gens \in [Services -> Nat]

\* An established connection is authenticated, and one whose hello is not
\* answered is neither established nor given a generation.
AuthInv ==
    /\ EstablishedIsAuthenticated
    /\ \A c \in Sockets :
         link[c].pc \in Early => ~link[c].established /\ ~link[c].hello /\ link[c].generation = None

\* The salted password that belongs to an entry of the cache: the salt names
\* the user it was made for.
PasswordOf(entry) ==
    IF entry.mechanism = Sha1
    THEN <<entry.salt[2], entry.password, entry.salt, entry.i>>
    ELSE <<entry.password, entry.salt, entry.i>>

\* A conversation uses the entry of its credential and of the salt it was
\* sent, which is its user's, and the salted password of that entry.
UsesOwn(L, cr) ==
    /\ L.entry = CacheEntry(L.mech, cr, L.first)
    /\ L.first.salt[2] = cr.username
    /\ L.proof = PasswordOf(L.entry)

\* Every salted password in the cache is that of its entry, and so is the one
\* a conversation uses.
SaltedInv ==
    /\ \A e \in salted : e.password = PasswordOf(e.entry)
    /\ \A c \in Sockets : link[c].pc = "scram_final" => UsesOwn(link[c], Cred(c))

\* The mutex is held by the one connection in a conversation; when that needs
\* a token the cache has none, and when it tries the cached one it has at least
\* the generation of the cache, so that a refusal empties the cache.
OidcInv ==
    \A c \in Sockets :
        /\ link[c].pc \in OidcStates => holder = c
        /\ link[c].pc \in WithoutTokenStates => cache.access_token = None
        /\ link[c].pc = "cached" => link[c].token_gen_id >= cache.token_gen_id

\* The copy of the generations a connection has made is behind for exactly the
\* services that were cleared since, and its own generation is from the copy.
GenLink(L, gens, balanced) ==
    /\ L.pc # "idle" =>
         /\ L.snapshot \in [Services -> Nat]
         /\ \A s \in Services : /\ L.snapshot[s] <= gens[s]
                                /\ s \in L.cleared <=> L.snapshot[s] < gens[s]
    /\ L.pc = "idle" => L.cleared = {}
    /\ L.hello => L.pc # "idle" /\ L.service \in Services \cup {None}
    /\ balanced /\ L.hello /\ L.generation # None =>
         /\ L.service \in Services
         /\ L.generation = [service |-> L.service, generation |-> L.snapshot[L.service]]

GenInv == \A c \in Sockets : GenLink(link[c], world.gens, setup.loadBalanced)

AInv == Shapes /\ AuthInv /\ SaltedInv /\ OidcInv /\ GenInv

-----------------------------------------------------------------------------
(* What the operators do to the record of a connection.                    *)

\* What every step after the hello keeps: the service, the copy of the
\* generations and what was cleared; the connection becomes established only
\* when it is authenticated, and its generation is then the one derived from
\* the copy.
Keeps(L, M) ==
    /\ DOMAIN M = LinkFields
    /\ M.hello = L.hello /\ M.service = L.service
    /\ M.snapshot = L.snapshot /\ M.cleared = L.cleared
    /\ M.established => L.established \/ M.authed
    /\ L.authed => M.authed
    /\ M.generation = L.generation \/ M.generation = Derived(L) \/ ~L.hello
    /\ M.pc \notin Early

\* The end of a conversation in failure.
LEMMA FailedKeeps ==
    ASSUME NEW L, DOMAIN L = LinkFields
    PROVE  /\ Keeps(L, Failed(L))
           /\ Failed(L).pc \in AtRest
           /\ Failed(L).token_gen_id = L.token_gen_id
           /\ Failed(L).established = L.established
           /\ ~L.established /\ ~L.hello => Failed(L).pc = "failed"
BY DEF Failed, Keeps, LinkFields, AtRest, Early

\* The end of a conversation that the server has completed.
LEMMA SucceededKeeps ==
    ASSUME NEW L, DOMAIN L = LinkFields
    PROVE  LET M == [Succeeded(L) EXCEPT !.authed = TRUE]
           IN /\ Keeps(L, M)
              /\ M.pc \in AtRest
              /\ M.token_gen_id = L.token_gen_id
<1>1. CASE L.established
  BY <1>1 DEF Succeeded, Keeps, LinkFields, AtRest, Early
<1>2. CASE ~L.established /\ setup.loadBalanced /\ L.service = None
  <2>1. Succeeded(L) = Failed(L)
    BY <1>2 DEF Succeeded
  <2> QED  BY SMT, <2>1, FailedKeeps DEF Keeps, LinkFields, AtRest, Early
<1>3. CASE ~L.established /\ ~(setup.loadBalanced /\ L.service = None)
  BY <1>3 DEF Succeeded, Keeps, LinkFields, AtRest, Early
<1> QED  BY <1>1, <1>2, <1>3

-----------------------------------------------------------------------------
(* Each conjunct of the invariant, through one step of one connection.     *)

CacheShape(k) ==
    /\ DOMAIN k = {"access_token", "refresh_token", "idp", "token_gen_id"}
    /\ k.token_gen_id \in Nat

WorldShape(w) ==
    /\ DOMAIN w = {"version", "issued", "expired", "gens", "events"}
    /\ w.gens \in [Services -> Nat]

\* What writing the state of one connection changes.
LEMMA ShapesStep ==
    ASSUME Shapes, NEW c \in Sockets, NEW M, Put(c, M), DOMAIN M = LinkFields, M.token_gen_id \in Nat,
           UNCHANGED setup, CacheShape(cache'), WorldShape(world')
    PROVE  /\ Shapes'
           /\ link'[c] = M
           /\ \A d \in Sockets \ {c} : link'[d] = link[d]
BY DEF Shapes, Put, CacheShape, WorldShape

\* EstablishedIsAuthenticated through a step of one conversation.
LEMMA AuthStep ==
    ASSUME Shapes, AuthInv, NEW c \in Sockets, NEW M, Put(c, M), Keeps(link[c], M), UNCHANGED setup
    PROVE  AuthInv'
<1>1. /\ link'[c] = M
      /\ \A d \in Sockets \ {c} : link'[d] = link[d]
  BY DEF Shapes, Put
<1>2. \A d \in Sockets : Cred(d)' = Cred(d) /\ Server' = Server
  BY DEF Cred, Server
<1>3. EstablishedIsAuthenticated'
  BY <1>1, <1>2 DEF EstablishedIsAuthenticated, AuthInv, Keeps
<1>4. ASSUME NEW d \in Sockets, (link[d].pc \in Early)'
      PROVE  (~link[d].established /\ ~link[d].hello /\ link[d].generation = None)'
  BY <1>1, <1>4 DEF AuthInv, Keeps
<1> QED  BY <1>3, <1>4 DEF AuthInv

\* The salted passwords through a step that computes none.
LEMMA SaltedStep ==
    ASSUME Shapes, SaltedInv, NEW c \in Sockets, NEW M, Put(c, M), M.pc # "scram_final",
           UNCHANGED <<setup, salted>>
    PROVE  SaltedInv'
<1>1. /\ link'[c] = M
      /\ \A d \in Sockets \ {c} : link'[d] = link[d]
  BY DEF Shapes, Put
<1>2. \A d \in Sockets : Cred(d)' = Cred(d)
  BY DEF Cred
<1> QED  BY <1>1, <1>2 DEF SaltedInv

\* A connection that ends its conversation.
LEMMA OidcLeave ==
    ASSUME Shapes, OidcInv, NEW c \in Sockets, NEW M, Put(c, M), M.pc \notin OidcStates,
           Release(c) \/ UNCHANGED holder, UNCHANGED cache \/ holder \in {c, None}
    PROVE  OidcInv'
<1>1. /\ link'[c] = M
      /\ \A d \in Sockets \ {c} : link'[d] = link[d]
  BY DEF Shapes, Put
<1>2. ASSUME NEW d \in Sockets \ {c}, link[d].pc \in OidcStates
      PROVE  holder = d /\ holder' = d /\ UNCHANGED cache
  BY <1>2, SetupsAssumption DEF OidcInv, Release
<1>3. "cached" \in OidcStates /\ WithoutTokenStates \subseteq OidcStates
  BY DEF OidcStates, WithoutTokenStates
<1> QED  BY SMT, <1>1, <1>2, <1>3 DEF OidcInv

\* The connection that holds the mutex, or takes it, goes on with its
\* conversation.
LEMMA OidcGoOn ==
    ASSUME Shapes, OidcInv, NEW c \in Sockets, NEW M, Put(c, M), holder \in {c, None}, holder' = c,
           M.pc \in WithoutTokenStates => cache'.access_token = None,
           M.pc = "cached" => M.token_gen_id >= cache'.token_gen_id
    PROVE  OidcInv'
<1>1. /\ link'[c] = M
      /\ \A d \in Sockets \ {c} : link'[d] = link[d]
  BY DEF Shapes, Put
<1>2. \A d \in Sockets \ {c} : link[d].pc \notin OidcStates
  BY SetupsAssumption DEF OidcInv
<1>3. "cached" \in OidcStates /\ WithoutTokenStates \subseteq OidcStates
  BY DEF OidcStates, WithoutTokenStates
<1> QED  BY <1>1, <1>2, <1>3 DEF OidcInv

\* The generations through a step of one conversation.
LEMMA GenStep ==
    ASSUME Shapes, AuthInv, GenInv, NEW c \in Sockets, NEW M, Put(c, M), Keeps(link[c], M),
           link[c].pc # "idle", UNCHANGED setup, world'.gens = world.gens
    PROVE  GenInv'
<1>1. /\ link'[c] = M
      /\ \A d \in Sockets \ {c} : link'[d] = link[d]
  BY DEF Shapes, Put
<1>2. GenLink(link[c], world.gens, setup.loadBalanced)
  BY DEF GenInv
<1>3. GenLink(M, world.gens, setup.loadBalanced)
  <2>1. /\ M.hello = link[c].hello /\ M.service = link[c].service
        /\ M.snapshot = link[c].snapshot /\ M.cleared = link[c].cleared
        /\ M.pc # "idle"
        /\ M.generation = link[c].generation \/ M.generation = Derived(link[c]) \/ ~link[c].hello
    BY DEF Keeps, Early
  <2>2. M.hello => M.pc # "idle" /\ M.service \in Services \cup {None}
    BY <1>2, <2>1 DEF GenLink
  <2>3. ASSUME setup.loadBalanced, M.hello, M.generation # None
        PROVE  /\ M.service \in Services
               /\ M.generation = [service |-> M.service, generation |-> M.snapshot[M.service]]
    BY <1>2, <2>1, <2>2, <2>3 DEF Derived, GenLink
  <2> QED  BY <1>2, <2>1, <2>2, <2>3 DEF GenLink
<1> QED  BY <1>1, <1>3 DEF GenInv

\* A step after the hello that leads to no SCRAM and no OIDC state.
LEMMA EndStep ==
    ASSUME AInv, NEW c \in Sockets, NEW M, Put(c, M), Keeps(link[c], M), M.token_gen_id \in Nat,
           link[c].pc # "idle", M.pc \notin OidcStates, M.pc # "scram_final",
           UNCHANGED <<setup, salted, world>>, CacheShape(cache'),
           Release(c) \/ UNCHANGED holder, UNCHANGED cache \/ holder \in {c, None}
    PROVE  AInv'
<1>1. WorldShape(world')
  BY DEF AInv, Shapes, WorldShape
<1> QED
  BY <1>1, ShapesStep, AuthStep, SaltedStep, OidcLeave, GenStep DEF AInv, Keeps

\* The cache and the link are well shaped, as the lemmas above want it.
LEMMA InvShapes ==
    ASSUME AInv
    PROVE  /\ CacheShape(cache) /\ WorldShape(world)
           /\ \A c \in Sockets : DOMAIN link[c] = LinkFields /\ link[c].token_gen_id \in Nat
BY DEF AInv, Shapes, CacheShape, WorldShape

\* A connection at rest is in no OIDC state and holds no salted password.
LEMMA RestStates ==
    AtRest \cap (OidcStates \cup {"scram_final"}) = {}
BY DEF AtRest, OidcStates, CallbackStates

\* A conversation ends in failure, or in success.
LEMMA FailedStep ==
    ASSUME AInv, NEW c \in Sockets, Put(c, Failed(link[c])), link[c].pc # "idle",
           UNCHANGED <<setup, cache, salted, world>>, Release(c) \/ UNCHANGED holder
    PROVE  AInv'
BY InvShapes, RestStates, FailedKeeps, EndStep

\* A conversation ends in success.
LEMMA SucceededStep ==
    ASSUME AInv, NEW c \in Sockets, Put(c, [Succeeded(link[c]) EXCEPT !.authed = TRUE]), link[c].pc # "idle",
           UNCHANGED <<setup, salted, world>>, CacheShape(cache'),
           Release(c) \/ UNCHANGED holder, UNCHANGED cache \/ holder \in {c, None}
    PROVE  AInv'
BY InvShapes, RestStates, SucceededKeeps, EndStep

\* A conversation goes on, outside the mutex.
LEMMA GoOnStep ==
    ASSUME AInv, NEW c \in Sockets, NEW p, Put(c, [link[c] EXCEPT !.pc = p]), link[c].pc # "idle",
           p \notin OidcStates \cup Early \cup {"scram_final"},
           UNCHANGED <<setup, cache, salted, world, holder>>
    PROVE  AInv'
<1> DEFINE M == [link[c] EXCEPT !.pc = p]
<1>1. Keeps(link[c], M) /\ M.token_gen_id \in Nat /\ M.pc = p
  BY InvShapes DEF Keeps, LinkFields
<1> QED  BY <1>1, InvShapes, EndStep

-----------------------------------------------------------------------------
(* The conversations that take no lock.                                    *)

\* The reply to X.509 and PLAIN.
LEMMA SingleReplyInv ==
    ASSUME AInv, NEW c \in Sockets, SingleReply(c)
    PROVE  AInv'
<1>1. PICK r \in SaslReplies :
        IF SingleValid(link[c].mech, r)
        THEN Put(c, [Succeeded(link[c]) EXCEPT !.authed = r.ok /\ (link[c].mech = "PLAIN" => r.done)])
        ELSE Put(c, Failed(link[c]))
  BY DEF SingleReply
<1>2. link[c].pc = "single" /\ UNCHANGED <<setup, cache, holder, salted, world>>
  BY DEF SingleReply
<1>3. CASE SingleValid(link[c].mech, r)
  <2>1. (r.ok /\ (link[c].mech = "PLAIN" => r.done)) = TRUE
    BY <1>3 DEF SingleValid, SaslParsed
  <2>2. Put(c, [Succeeded(link[c]) EXCEPT !.authed = TRUE])
    BY <1>1, <1>3, <2>1
  <2> QED  BY <1>2, <2>2, InvShapes, SucceededStep
<1>4. CASE ~SingleValid(link[c].mech, r)
  BY <1>1, <1>2, <1>4, FailedStep
<1> QED  BY <1>3, <1>4

\* The first reply of MONGODB-AWS.
LEMMA AwsFirstReplyInv ==
    ASSUME AInv, NEW c \in Sockets, AwsFirstReply(c)
    PROVE  AInv'
<1>1. /\ link[c].pc = "aws_first" /\ UNCHANGED <<setup, cache, holder, salted, world>>
      /\ Put(c, Failed(link[c])) \/ Put(c, [link[c] EXCEPT !.pc = "aws_second"])
  BY DEF AwsFirstReply
<1>2. "aws_second" \notin OidcStates \cup Early \cup {"scram_final"}
  BY DEF OidcStates, CallbackStates, Early
<1> QED  BY <1>1, <1>2, FailedStep, GoOnStep

\* The second reply of MONGODB-AWS.
LEMMA AwsSecondReplyInv ==
    ASSUME AInv, NEW c \in Sockets, AwsSecondReply(c)
    PROVE  AInv'
<1>1. PICK r \in SaslReplies :
        Put(c, IF AwsSecondValid(r)
               THEN [Succeeded(link[c]) EXCEPT !.authed = r = [ok |-> TRUE, cid |-> TRUE, done |-> TRUE]]
               ELSE Failed(link[c]))
  BY DEF AwsSecondReply
<1>2. link[c].pc = "aws_second" /\ UNCHANGED <<setup, cache, holder, salted, world>>
  BY DEF AwsSecondReply
<1>3. CASE AwsSecondValid(r)
  <2>1. (r = [ok |-> TRUE, cid |-> TRUE, done |-> TRUE]) = TRUE
    BY <1>3 DEF AwsSecondValid, SaslParsed, SaslReplies
  <2>2. Put(c, [Succeeded(link[c]) EXCEPT !.authed = TRUE])
    BY <1>1, <1>3, <2>1
  <2> QED  BY <1>2, <2>2, InvShapes, SucceededStep
<1>4. CASE ~AwsSecondValid(r)
  BY <1>1, <1>2, <1>4, FailedStep
<1> QED  BY <1>3, <1>4

\* A reply of GSSAPI within its rounds.
LEMMA GssapiReplyInv ==
    ASSUME AInv, NEW c \in Sockets, GssapiReply(c)
    PROVE  AInv'
<1>1. /\ link[c].pc = "challenge" /\ UNCHANGED <<setup, cache, holder, salted, world>>
      /\ \/ Put(c, Failed(link[c]))
         \/ Put(c, [Succeeded(link[c]) EXCEPT !.authed = TRUE])
         \/ Put(c, [link[c] EXCEPT !.pc = "wrap"])
         \/ Put(c, [link[c] EXCEPT !.rounds = @ + 1])
  BY DEF GssapiReply
<1>2. CASE Put(c, [link[c] EXCEPT !.rounds = @ + 1])
  <2> DEFINE M == [link[c] EXCEPT !.rounds = @ + 1]
  <2>1. Keeps(link[c], M) /\ M.token_gen_id \in Nat /\ M.pc = "challenge"
    BY <1>1, InvShapes DEF Keeps, LinkFields, Early
  <2>2. "challenge" \notin OidcStates \cup {"scram_final"}
    BY DEF OidcStates, CallbackStates
  <2> QED  BY <1>1, <1>2, <2>1, <2>2, InvShapes, EndStep
<1>3. "wrap" \notin OidcStates \cup Early \cup {"scram_final"}
  BY DEF OidcStates, CallbackStates, Early
<1> QED  BY <1>1, <1>2, <1>3, InvShapes, FailedStep, SucceededStep, GoOnStep

\* The last reply of GSSAPI.
LEMMA GssapiLastReplyInv ==
    ASSUME AInv, NEW c \in Sockets, GssapiLastReply(c)
    PROVE  AInv'
<1>1. PICK r \in SaslReplies :
        Put(c, IF SaslParsed(r) /\ r.done THEN [Succeeded(link[c]) EXCEPT !.authed = r.ok /\ r.done]
               ELSE Failed(link[c]))
  BY DEF GssapiLastReply
<1>2. link[c].pc = "wrap" /\ UNCHANGED <<setup, cache, holder, salted, world>>
  BY DEF GssapiLastReply
<1>3. CASE SaslParsed(r) /\ r.done
  <2>1. (r.ok /\ r.done) = TRUE
    BY <1>3 DEF SaslParsed
  <2>2. Put(c, [Succeeded(link[c]) EXCEPT !.authed = TRUE])
    BY <1>1, <1>3, <2>1
  <2> QED  BY <1>2, <2>2, InvShapes, SucceededStep
<1>4. CASE ~(SaslParsed(r) /\ r.done)
  BY <1>1, <1>2, <1>4, FailedStep
<1> QED  BY <1>3, <1>4

-----------------------------------------------------------------------------
(* SCRAM.                                                                  *)

\* The salt of a server's first answer names the user.
LEMMA FirstNamesUser ==
    ASSUME NEW m, NEW cr, NEW r \in ServerFirsts(m, cr)
    PROVE  r.salt[2] = cr.username
BY SMT DEF ServerFirsts

\* The salted password, computed or found in the cache, is that of the entry.
LEMMA SaltedPasswordOfEntry ==
    ASSUME SaltedInv, NEW m, NEW cr, NEW r, r.salt[2] = cr.username
    PROVE  LET entry == CacheEntry(m, cr, r)
           IN SaltedPassword(entry, m, cr, r) = PasswordOf(entry)
<1> DEFINE entry == CacheEntry(m, cr, r)
<1>1. compute_salted_password(m, cr, r) = PasswordOf(entry)
  BY DEF compute_salted_password, PasswordOf, CacheEntry
<1>2. ASSUME \E e \in salted : e.entry = entry
      PROVE  (CHOOSE e \in salted : e.entry = entry).password = PasswordOf(entry)
  BY <1>2 DEF SaltedInv
<1> QED  BY <1>1, <1>2 DEF SaltedPassword

\* The final message of a conversation, or its end.
LEMMA ScramFinalKeeps ==
    ASSUME SaltedInv, NEW L, DOMAIN L = LinkFields, NEW cr, NEW r, r.salt[2] = cr.username
    PROVE  LET M == ScramFinal(L, cr, r)
           IN /\ Keeps(L, M)
              /\ M.token_gen_id = L.token_gen_id
              /\ M.pc \in AtRest \cup {"scram_final"}
              /\ M.pc = "scram_final" => UsesOwn(M, cr)
<1> DEFINE M == ScramFinal(L, cr, r)
<1>1. CASE M = Failed(L)
  BY <1>1, FailedKeeps DEF AtRest
<1>2. CASE M # Failed(L)
  <2> DEFINE entry == CacheEntry(L.mech, cr, r)
  <2>1. M = ClientFinal(L, r, entry, SaltedPassword(entry, L.mech, cr, r))
    BY <1>2 DEF ScramFinal
  <2>2. SaltedPassword(entry, L.mech, cr, r) = PasswordOf(entry)
    BY SaltedPasswordOfEntry
  <2> HIDE DEF entry
  <2>3. /\ Keeps(L, M) /\ M.token_gen_id = L.token_gen_id /\ M.pc = "scram_final"
        /\ M.entry = entry /\ M.first = r /\ M.mech = L.mech /\ M.proof = PasswordOf(entry)
    BY SMT, <2>1, <2>2 DEF ClientFinal, Keeps, LinkFields, Early
  <2> QED  BY <2>3 DEF entry, UsesOwn
<1> QED  BY <1>1, <1>2

\* A conversation that reaches its final message in this step, or ends.
LEMMA ScramStep ==
    ASSUME AInv, NEW c \in Sockets, NEW r, r.salt[2] = Cred(c).username, link[c].pc # "idle",
           Put(c, ScramFinal(link[c], Cred(c), r)), UNCHANGED <<setup, cache, holder, salted, world>>
    PROVE  AInv'
<1> DEFINE M == ScramFinal(link[c], Cred(c), r)
<1>1. DOMAIN link[c] = LinkFields /\ SaltedInv
  BY InvShapes DEF AInv
<1>2. /\ Keeps(link[c], M) /\ M.token_gen_id \in Nat /\ M.pc \in AtRest \cup {"scram_final"}
      /\ M.pc = "scram_final" => UsesOwn(M, Cred(c))
  BY SMT, <1>1, InvShapes, ScramFinalKeeps
<1> HIDE DEF M
<1>3. Put(c, M)
  BY DEF M
<1>4. SaltedInv'
  <2>1. /\ link'[c] = M
        /\ \A d \in Sockets \ {c} : link'[d] = link[d]
    BY <1>3 DEF AInv, Shapes, Put
  <2>2. \A d \in Sockets : Cred(d)' = Cred(d)
    BY DEF Cred
  <2> QED  BY <1>1, <1>2, <2>1, <2>2 DEF SaltedInv
<1>5. M.pc \notin OidcStates
  BY <1>2 DEF AtRest, OidcStates, CallbackStates
<1> QED
  BY <1>2, <1>3, <1>4, <1>5, InvShapes, ShapesStep, AuthStep, OidcLeave, GenStep DEF AInv, Keeps

\* The first reply of SCRAM.
LEMMA ScramFirstReplyInv ==
    ASSUME AInv, NEW c \in Sockets, ScramFirstReply(c)
    PROVE  AInv'
<1>1. link[c].pc = "scram_first" /\ UNCHANGED <<setup, cache, holder, salted, world>>
  BY DEF ScramFirstReply
<1>2. CASE Put(c, Failed(link[c]))
  BY <1>1, <1>2, FailedStep
<1>3. CASE \E r \in ServerFirsts(link[c].mech, Cred(c)) : Put(c, ScramFinal(link[c], Cred(c), r))
  BY <1>1, <1>3, FirstNamesUser, ScramStep
<1> QED  BY <1>2, <1>3 DEF ScramFirstReply

\* The last reply of SCRAM.
LEMMA ScramFinalReplyInv ==
    ASSUME AInv, NEW c \in Sockets, ScramFinalReply(c)
    PROVE  AInv'
<1> DEFINE L == link[c]
<1>1. PICK r \in ServerFinals(L, Cred(c)) :
        IF ServerFinalParsed(r) /\ ServerFinalValid(r)
        THEN /\ Put(c, [Succeeded(L) EXCEPT !.authed = r = [cid |-> TRUE, body |-> "verifier", done |-> TRUE]])
             /\ salted' = IF \E e \in salted : e.entry = L.entry THEN salted
                          ELSE salted \cup {[entry |-> L.entry, password |-> L.proof]}
        ELSE Put(c, Failed(L)) /\ UNCHANGED salted
  BY DEF ScramFinalReply
<1>2. L.pc = "scram_final" /\ UNCHANGED <<setup, cache, holder, world>>
  BY DEF ScramFinalReply
<1>3. CASE ~(ServerFinalParsed(r) /\ ServerFinalValid(r))
  BY <1>1, <1>2, <1>3, FailedStep
<1>4. CASE ServerFinalParsed(r) /\ ServerFinalValid(r)
  <2> DEFINE M == [Succeeded(L) EXCEPT !.authed = TRUE]
  <2>1. (r = [cid |-> TRUE, body |-> "verifier", done |-> TRUE]) = TRUE
    BY <1>4 DEF ServerFinalValid, ServerFinals
  <2>2. Put(c, M)
    BY <1>1, <1>4, <2>1
  <2>3. Keeps(L, M) /\ M.pc \in AtRest /\ M.token_gen_id \in Nat
    BY InvShapes, SucceededKeeps
  <2> HIDE DEF M
  <2>4. SaltedInv'
    <3>1. /\ link'[c] = M
          /\ \A d \in Sockets \ {c} : link'[d] = link[d]
      BY <2>2 DEF AInv, Shapes, Put
    <3>2. \A d \in Sockets : Cred(d)' = Cred(d)
      BY <1>2 DEF Cred
    <3>3. L.proof = PasswordOf(L.entry)
      BY <1>2 DEF AInv, SaltedInv, UsesOwn
    <3>4. \A e \in salted' : e.password = PasswordOf(e.entry)
      BY SMT, <1>1, <1>4, <3>3 DEF AInv, SaltedInv
    <3>5. M.pc # "scram_final"
      BY <2>3, RestStates
    <3> QED  BY <3>1, <3>2, <3>4, <3>5 DEF AInv, SaltedInv
  <2>5. M.pc \notin OidcStates
    BY <2>3, RestStates
  <2> QED
    BY <1>2, <2>2, <2>3, <2>4, <2>5, InvShapes, ShapesStep, AuthStep, OidcLeave, GenStep DEF AInv, Keeps
<1> QED  BY <1>3, <1>4

-----------------------------------------------------------------------------
(* OIDC.                                                                   *)

\* The fields that Keeps looks at, but for the state.
SameLink(K, L) ==
    /\ DOMAIN L = LinkFields
    /\ L.hello = K.hello /\ L.service = K.service
    /\ L.snapshot = K.snapshot /\ L.cleared = K.cleared
    /\ L.established = K.established /\ L.authed = K.authed
    /\ L.generation = K.generation

\* Keeps through a change of fields it does not look at.
LEMMA KeepsFrom ==
    ASSUME NEW K, NEW L, NEW M, SameLink(K, L), Keeps(L, M)
    PROVE  Keeps(K, M)
BY DEF SameLink, Keeps, Derived

\* The states reached when there is no token, or it was refused.
LEMMA WithoutTokenKeeps ==
    ASSUME NEW L, DOMAIN L = LinkFields
    PROVE  /\ Keeps(L, WithoutToken(L)) /\ Keeps(L, WithoutRefresh(L))
           /\ WithoutToken(L).pc \in {"callback", "refresh", "no_token"}
           /\ WithoutRefresh(L).pc \in {"callback", "no_token"}
           /\ WithoutToken(L).token_gen_id = L.token_gen_id
           /\ WithoutRefresh(L).token_gen_id = L.token_gen_id
BY DEF WithoutToken, WithoutRefresh, Keeps, LinkFields, Early

\* What invalidating a token leaves of the connection and of the cache.
LEMMA InvalidKeeps ==
    ASSUME NEW L, DOMAIN L = LinkFields, L.token_gen_id \in Nat, NEW force, CacheShape(cache)
    PROVE  /\ SameLink(L, InvalidLink(L, force)) /\ InvalidLink(L, force).token_gen_id \in Nat
           /\ CacheShape(InvalidCache(L, force))
           /\ Invalidates(L, force) => InvalidCache(L, force).access_token = None
           /\ cache.access_token = None => InvalidCache(L, force).access_token = None
BY DEF InvalidLink, InvalidCache, SameLink, LinkFields, CacheShape

\* What caching a token leaves of the shape of the cache.
LEMMA CacheUpdateShape ==
    ASSUME CacheShape(cache), NEW t, NEW info
    PROVE  CacheShape(CacheUpdate(cache, t, info))
BY SMT DEF CacheShape, CacheUpdate

\* A connection that has, or takes, the mutex goes on with its conversation.
LEMMA HolderStep ==
    ASSUME AInv, NEW c \in Sockets, NEW M, Put(c, M), Keeps(link[c], M), M.token_gen_id \in Nat,
           link[c].pc # "idle", M.pc # "scram_final",
           UNCHANGED <<setup, salted>>, CacheShape(cache'), WorldShape(world'), world'.gens = world.gens,
           holder \in {c, None}, holder' = c,
           M.pc \in WithoutTokenStates => cache'.access_token = None,
           M.pc = "cached" => M.token_gen_id >= cache'.token_gen_id
    PROVE  AInv'
BY ShapesStep, AuthStep, SaltedStep, OidcGoOn, GenStep DEF AInv, Keeps

\* A connection that adopts the generation of the cached token.
LEMMA PropagateSame ==
    ASSUME NEW L, DOMAIN L = LinkFields, L.token_gen_id \in Nat, CacheShape(cache)
    PROVE  LET M == propagate_token_gen_id(L)
           IN /\ SameLink(L, M) /\ M.token_gen_id \in Nat
              /\ M.token_gen_id >= cache.token_gen_id
BY SMT DEF propagate_token_gen_id, SameLink, LinkFields, CacheShape

\* A connection takes the mutex.
LEMMA AcquireInv ==
    ASSUME AInv, NEW c \in Sockets, Acquire(c)
    PROVE  AInv'
<1> DEFINE L == propagate_token_gen_id(link[c])
<1>1. link[c].pc = "lock" /\ holder = None /\ UNCHANGED <<setup, cache, salted, world>>
  BY DEF Acquire
<1>2. SameLink(link[c], L) /\ L.token_gen_id \in Nat /\ L.token_gen_id >= cache.token_gen_id
  BY InvShapes, PropagateSame
<1>3. CacheShape(cache') /\ WorldShape(world') /\ world'.gens = world.gens
  BY <1>1, InvShapes
<1> HIDE DEF L
<1>4. CASE Put(c, Failed(link[c])) /\ UNCHANGED holder
  BY <1>1, <1>4, FailedStep
<1>5. CASE Put(c, [Succeeded(L) EXCEPT !.authed = TRUE]) /\ UNCHANGED holder
  <2> DEFINE M == [Succeeded(L) EXCEPT !.authed = TRUE]
  <2>1. Keeps(link[c], M) /\ M.pc \in AtRest /\ M.token_gen_id \in Nat
    BY <1>2, SucceededKeeps, KeepsFrom DEF SameLink
  <2> QED  BY <1>1, <1>3, <1>5, <2>1, RestStates, EndStep
<1>6. CASE Put(c, Failed(L)) /\ UNCHANGED holder
  <2>1. Keeps(link[c], Failed(L)) /\ Failed(L).pc \in AtRest /\ Failed(L).token_gen_id \in Nat
    BY <1>2, FailedKeeps, KeepsFrom DEF SameLink
  <2> QED  BY <1>1, <1>3, <1>6, <2>1, RestStates, EndStep
<1>7. CASE holder' = c /\ cache.access_token # None
           /\ Put(c, [L EXCEPT !.pc = "cached", !.token = cache.access_token])
  <2> DEFINE M == [L EXCEPT !.pc = "cached", !.token = cache.access_token]
  <2>1. /\ Keeps(link[c], M) /\ M.pc = "cached" /\ M.token_gen_id \in Nat
        /\ M.token_gen_id >= cache'.token_gen_id
    BY <1>1, <1>2 DEF SameLink, Keeps, LinkFields, Early
  <2>2. "cached" \notin WithoutTokenStates
    BY DEF WithoutTokenStates
  <2> QED  BY <1>1, <1>3, <1>7, <2>1, <2>2, HolderStep
<1>8. CASE holder' = c /\ cache.access_token = None /\ Put(c, WithoutToken(L))
  <2> DEFINE M == WithoutToken(L)
  <2>1. /\ Keeps(link[c], M) /\ M.pc \in {"callback", "refresh", "no_token"}
        /\ M.token_gen_id \in Nat
    BY <1>2, WithoutTokenKeeps, KeepsFrom DEF SameLink
  <2> QED  BY <1>1, <1>3, <1>8, <2>1, HolderStep
<1> QED  BY <1>4, <1>5, <1>6, <1>7, <1>8 DEF Acquire, L

\* The reply to the cached token.
LEMMA CachedReplyInv ==
    ASSUME AInv, NEW c \in Sockets, CachedReply(c)
    PROVE  AInv'
<1> DEFINE L == link[c]
<1>1. L.pc = "cached" /\ UNCHANGED <<setup, salted, world>>
  BY DEF CachedReply
<1>2. holder = c /\ L.token_gen_id >= cache.token_gen_id
  BY <1>1 DEF AInv, OidcInv, OidcStates
<1>3. CASE Put(c, [Succeeded(L) EXCEPT !.authed = TRUE]) /\ Release(c) /\ UNCHANGED cache
  BY <1>1, <1>3, InvShapes, SucceededStep
<1>4. CASE /\ cache' = InvalidCache(L, FALSE) /\ UNCHANGED holder
           /\ Put(c, WithoutToken(InvalidLink(L, FALSE)))
  <2> DEFINE M == WithoutToken(InvalidLink(L, FALSE))
  <2>1. SameLink(L, InvalidLink(L, FALSE)) /\ InvalidLink(L, FALSE).token_gen_id \in Nat
        /\ CacheShape(cache') /\ cache'.access_token = None
    BY <1>2, <1>4, InvShapes, InvalidKeeps DEF Invalidates
  <2>2. Keeps(L, M) /\ M.pc \in {"callback", "refresh", "no_token"} /\ M.token_gen_id \in Nat
    BY <2>1, WithoutTokenKeeps, KeepsFrom DEF SameLink
  <2> QED  BY <1>1, <1>2, <1>4, <2>1, <2>2, InvShapes, HolderStep
<1> QED  BY <1>3, <1>4 DEF CachedReply

\* The callback returns a token or an error.
LEMMA CallbackReturnsInv ==
    ASSUME AInv, NEW c \in Sockets, CallbackReturns(c)
    PROVE  AInv'
<1> DEFINE L == link[c]
<1>1. L.pc \in {"callback", "refresh", "callback_two"} /\ UNCHANGED <<setup, salted>>
  BY DEF CallbackReturns
<1>2. holder = c /\ cache.access_token = None
  BY <1>1 DEF AInv, OidcInv, OidcStates, WithoutTokenStates, CallbackStates
<1>3. CASE Put(c, Failed(L)) /\ Release(c) /\ UNCHANGED <<cache, world>>
  BY <1>1, <1>3, FailedStep
<1>4. ASSUME NEW t, world' = [world EXCEPT !.issued = t], UNCHANGED holder,
             Put(c, [L EXCEPT !.token = t, !.pc = CASE @ = "callback" -> "single_step"
                                                    [] @ = "refresh" -> "refreshed"
                                                    [] OTHER -> "continue"]),
             cache' = IF L.pc = "callback_two" THEN CacheUpdate(cache, t, TRUE) ELSE cache
      PROVE  AInv'
  <2> DEFINE p == CASE L.pc = "callback" -> "single_step"
                    [] L.pc = "refresh" -> "refreshed"
                    [] OTHER -> "continue"
             M == [L EXCEPT !.token = t, !.pc = p]
  <2>1. DOMAIN L = LinkFields /\ L.token_gen_id \in Nat
    BY InvShapes
  <2>2. Put(c, M)
    BY <1>4, <2>1 DEF LinkFields
  <2>3. p \in {"single_step", "refreshed", "continue"} /\ (L.pc = "callback_two" => p = "continue")
    BY <1>1
  <2> HIDE DEF p
  <2>4. Keeps(L, M) /\ M.token_gen_id \in Nat /\ M.pc = p
    BY <2>1, <2>3 DEF Keeps, LinkFields, Early
  <2>5. CacheShape(cache') /\ WorldShape(world') /\ world'.gens = world.gens
    BY <1>4, InvShapes, CacheUpdateShape DEF WorldShape
  <2>6. M.pc \in WithoutTokenStates => cache'.access_token = None
    BY <1>2, <1>4, <2>3, <2>4 DEF WithoutTokenStates
  <2> QED  BY <1>1, <1>2, <1>4, <2>2, <2>3, <2>4, <2>5, <2>6, HolderStep
<1> QED  BY <1>3, <1>4 DEF CallbackReturns

\* The reply to the token of a callback.
LEMMA SingleStepReplyInv ==
    ASSUME AInv, NEW c \in Sockets, SingleStepReply(c)
    PROVE  AInv'
<1>1. link[c].pc = "single_step" /\ Release(c) /\ UNCHANGED <<setup, salted, world>>
  BY DEF SingleStepReply
<1>2. holder = c
  BY <1>1 DEF AInv, OidcInv, OidcStates
<1>3. CASE /\ Put(c, [Succeeded(link[c]) EXCEPT !.authed = TRUE])
           /\ cache' = CacheUpdate(cache, link[c].token, FALSE)
  BY <1>1, <1>2, <1>3, InvShapes, CacheUpdateShape, SucceededStep
<1>4. CASE Put(c, Failed(link[c])) /\ UNCHANGED cache
  BY <1>1, <1>4, FailedStep
<1> QED  BY <1>3, <1>4 DEF SingleStepReply

\* The reply to a refreshed token.
LEMMA RefreshedReplyInv ==
    ASSUME AInv, NEW c \in Sockets, RefreshedReply(c)
    PROVE  AInv'
<1> DEFINE L == link[c]
<1>1. L.pc = "refreshed" /\ UNCHANGED <<setup, salted, world>>
  BY DEF RefreshedReply
<1>2. holder = c /\ cache.access_token = None
  BY <1>1 DEF AInv, OidcInv, OidcStates, WithoutTokenStates
<1>3. CASE /\ Put(c, [Succeeded(L) EXCEPT !.authed = TRUE]) /\ Release(c)
           /\ cache' = CacheUpdate(cache, L.token, FALSE)
  BY <1>1, <1>2, <1>3, InvShapes, CacheUpdateShape, SucceededStep
<1>4. CASE Put(c, WithoutRefresh(L)) /\ UNCHANGED <<cache, holder>>
  <2>1. /\ Keeps(L, WithoutRefresh(L)) /\ WithoutRefresh(L).pc \in {"callback", "no_token"}
        /\ WithoutRefresh(L).token_gen_id \in Nat
    BY InvShapes, WithoutTokenKeeps
  <2> QED  BY <1>1, <1>2, <1>4, <2>1, InvShapes, HolderStep
<1>5. CASE /\ cache' = InvalidCache(L, FALSE) /\ UNCHANGED holder
           /\ Put(c, WithoutRefresh(InvalidLink(L, FALSE)))
  <2> DEFINE M == WithoutRefresh(InvalidLink(L, FALSE))
  <2>1. SameLink(L, InvalidLink(L, FALSE)) /\ InvalidLink(L, FALSE).token_gen_id \in Nat
        /\ CacheShape(cache') /\ cache'.access_token = None
    BY <1>2, <1>5, InvShapes, InvalidKeeps
  <2>2. Keeps(L, M) /\ M.pc \in {"callback", "no_token"} /\ M.token_gen_id \in Nat
    BY <2>1, WithoutTokenKeeps, KeepsFrom DEF SameLink
  <2> QED  BY <1>1, <1>2, <1>5, <2>1, <2>2, InvShapes, HolderStep
<1> QED  BY <1>3, <1>4, <1>5 DEF RefreshedReply

\* The reply to a start without a token.
LEMMA NoTokenReplyInv ==
    ASSUME AInv, NEW c \in Sockets, NoTokenReply(c)
    PROVE  AInv'
<1> DEFINE M == [link[c] EXCEPT !.pc = "callback_two"]
<1>1. link[c].pc = "no_token" /\ UNCHANGED <<setup, cache, salted, world>>
  BY DEF NoTokenReply
<1>2. holder = c /\ cache.access_token = None
  BY <1>1 DEF AInv, OidcInv, OidcStates, WithoutTokenStates
<1>3. CASE Put(c, Failed(link[c])) /\ Release(c)
  BY <1>1, <1>3, FailedStep
<1>4. CASE Put(c, M) /\ UNCHANGED holder
  <2>1. Keeps(link[c], M) /\ M.pc = "callback_two" /\ M.token_gen_id \in Nat
    BY InvShapes DEF Keeps, LinkFields, Early
  <2> QED  BY <1>1, <1>2, <1>4, <2>1, InvShapes, HolderStep
<1> QED  BY <1>3, <1>4 DEF NoTokenReply

\* The reply to the token of the second step.
LEMMA ContinueReplyInv ==
    ASSUME AInv, NEW c \in Sockets, ContinueReply(c)
    PROVE  AInv'
<1>1. /\ link[c].pc = "continue" /\ Release(c) /\ UNCHANGED <<setup, cache, salted, world>>
      /\ \/ Put(c, [Succeeded(link[c]) EXCEPT !.authed = TRUE])
         \/ Put(c, Failed(link[c]))
  BY DEF ContinueReply
<1> QED  BY <1>1, InvShapes, SucceededStep, FailedStep

\* A command is answered that the token has expired.
LEMMA ReauthenticateInv ==
    ASSUME AInv, NEW c \in Sockets, Reauthenticate(c)
    PROVE  AInv'
<1> DEFINE L == link[c]
           M == [InvalidLink(L, TRUE) EXCEPT !.pc = "lock", !.first = None]
<1>1. /\ L.pc = "ready" /\ holder = None /\ Put(c, M) /\ cache' = InvalidCache(L, TRUE)
      /\ UNCHANGED <<setup, holder, salted, world>>
  BY DEF Reauthenticate
<1>2. /\ SameLink(L, InvalidLink(L, TRUE)) /\ InvalidLink(L, TRUE).token_gen_id \in Nat
      /\ CacheShape(cache')
  BY <1>1, InvShapes, InvalidKeeps
<1>3. Keeps(L, M) /\ M.token_gen_id \in Nat /\ M.pc = "lock"
  BY <1>2 DEF SameLink, Keeps, LinkFields, Early
<1>4. "lock" \notin OidcStates
  BY DEF OidcStates, CallbackStates
<1> QED  BY <1>1, <1>2, <1>3, <1>4, EndStep

-----------------------------------------------------------------------------
(* The handshake, and what happens meanwhile.                              *)

\* The stream fails under a connection.
LEMMA StreamFailsInv ==
    ASSUME AInv, NEW c \in Sockets, StreamFails(c)
    PROVE  AInv'
<1> DEFINE L == [link[c] EXCEPT !.broken = TRUE]
<1>1. SameLink(link[c], L) /\ L.pc = link[c].pc /\ L.token_gen_id = link[c].token_gen_id
      /\ L.token_gen_id \in Nat
  BY InvShapes DEF SameLink, LinkFields
<1>2. UNCHANGED <<setup, cache, salted, world>>
  BY DEF StreamFails
<1> HIDE DEF L
<1>3. CASE L.pc \in InFlight /\ Put(c, Failed(L)) /\ Release(c)
  <2>1. Keeps(link[c], Failed(L)) /\ Failed(L).pc \in AtRest /\ Failed(L).token_gen_id \in Nat
    BY <1>1, FailedKeeps, KeepsFrom DEF SameLink
  <2>2. link[c].pc # "idle"
    BY <1>1, <1>3 DEF InFlight
  <2> QED  BY <1>2, <1>3, <2>1, <2>2, InvShapes, RestStates, EndStep
<1>4. CASE L.pc \in {"cached", "refreshed"} /\ Put(c, L) /\ UNCHANGED holder
  <2>1. Keeps(link[c], L)
    BY <1>1, <1>4 DEF SameLink, Keeps, Early
  <2>2. /\ holder = c
        /\ L.pc \in WithoutTokenStates => cache.access_token = None
        /\ L.pc = "cached" => L.token_gen_id >= cache.token_gen_id
    BY <1>1, <1>4 DEF AInv, OidcInv, OidcStates
  <2> QED  BY <1>1, <1>2, <1>4, <2>1, <2>2, InvShapes, HolderStep
<1> QED  BY <1>3, <1>4 DEF StreamFails, L

\* The steps before the hello is answered.
LEMMA BeginInv ==
    ASSUME AInv, NEW c \in Sockets, Begin(c)
    PROVE  AInv'
<1> DEFINE L == link[c]
           M == [L EXCEPT !.pc = "connecting", !.snapshot = world.gens]
<1>1. L.pc = "idle" /\ Put(c, M) /\ UNCHANGED <<setup, cache, holder, salted, world>>
  BY DEF Begin
<1>2. /\ DOMAIN M = LinkFields /\ M.pc = "connecting" /\ M.snapshot = world.gens
      /\ M.token_gen_id \in Nat /\ M.cleared = L.cleared
      /\ M.established = L.established /\ M.hello = L.hello /\ M.generation = L.generation
  BY InvShapes DEF LinkFields
<1> HIDE DEF M
<1>3. /\ Shapes'
      /\ link'[c] = M
      /\ \A d \in Sockets \ {c} : link'[d] = link[d]
  BY <1>1, <1>2, InvShapes, ShapesStep DEF AInv
<1>4. AuthInv'
  <2>1. ~M.established /\ ~M.hello /\ M.generation = None
    BY <1>1, <1>2 DEF AInv, AuthInv, Early
  <2>2. \A d \in Sockets : Cred(d)' = Cred(d) /\ Server' = Server
    BY <1>1 DEF Cred, Server
  <2> QED  BY <1>3, <2>1, <2>2 DEF AInv, AuthInv, EstablishedIsAuthenticated
<1>5. SaltedInv'
  BY <1>1, <1>2, SaltedStep DEF AInv
<1>6. OidcInv'
  <2>1. "connecting" \notin OidcStates
    BY DEF OidcStates, CallbackStates
  <2> QED  BY <1>1, <1>2, <2>1, OidcLeave DEF AInv
<1>7. GenInv'
  <2>1. M.cleared = {} /\ ~M.hello
    BY <1>1, <1>2 DEF AInv, GenInv, GenLink, AuthInv, Early
  <2>2. world.gens \in [Services -> Nat]
    BY DEF AInv, Shapes
  <2>3. GenLink(M, world.gens, setup.loadBalanced)
    BY SMT, <1>2, <2>1, <2>2 DEF GenLink
  <2> QED  BY <1>1, <1>3, <2>3 DEF AInv, GenInv
<1> QED  BY <1>3, <1>4, <1>5, <1>6, <1>7 DEF AInv

\* A stream is connected, or is not.
LEMMA ConnectInv ==
    ASSUME AInv, NEW c \in Sockets, Connect(c)
    PROVE  AInv'
<1> DEFINE L == link[c]
<1>1. L.pc = "connecting" /\ UNCHANGED <<setup, cache, holder, salted, world>>
  BY DEF Connect
<1>2. CASE Put(c, [Failed(L) EXCEPT !.broken = TRUE])
  <2> DEFINE M == [Failed(L) EXCEPT !.broken = TRUE]
  <2> DEFINE F == Failed(L)
  <2>0. Keeps(L, F) /\ F.token_gen_id \in Nat /\ F.pc \in AtRest
    BY InvShapes, FailedKeeps
  <2> HIDE DEF F
  <2>1. Keeps(L, [F EXCEPT !.broken = TRUE]) /\ [F EXCEPT !.broken = TRUE].token_gen_id \in Nat
        /\ [F EXCEPT !.broken = TRUE].pc \in AtRest
    BY SMT, <2>0 DEF Keeps, LinkFields
  <2> USE DEF F
  <2> QED  BY <1>1, <1>2, <2>1, InvShapes, RestStates, EndStep
<1>3. CASE Put(c, Failed(L))
  BY <1>1, <1>3, FailedStep
<1>4. ASSUME NEW spec, NEW token, Put(c, [L EXCEPT !.pc = "hello", !.mech = spec, !.token = token])
      PROVE  AInv'
  <2> DEFINE M == [L EXCEPT !.pc = "hello", !.mech = spec, !.token = token]
  <2>1. SameLink(L, M) /\ M.pc = "hello" /\ M.token_gen_id \in Nat
    BY InvShapes DEF SameLink, LinkFields
  <2>2. Put(c, M)
    BY <1>4
  <2> HIDE DEF M
  <2>3. /\ Shapes'
        /\ link'[c] = M
        /\ \A d \in Sockets \ {c} : link'[d] = link[d]
    BY <1>1, <2>1, <2>2, InvShapes, ShapesStep DEF AInv, SameLink
  <2>4. ~M.established /\ ~M.hello /\ M.generation = None
    BY <1>1, <2>1 DEF AInv, AuthInv, Early, SameLink
  <2>5. AuthInv'
    <3>1. \A d \in Sockets : Cred(d)' = Cred(d) /\ Server' = Server
      BY <1>1 DEF Cred, Server
    <3> QED  BY <2>3, <2>4, <3>1 DEF AInv, AuthInv, EstablishedIsAuthenticated
  <2>6. SaltedInv'
    BY <1>1, <2>1, <2>2, SaltedStep DEF AInv
  <2>7. OidcInv'
    <3>1. "hello" \notin OidcStates
      BY DEF OidcStates, CallbackStates
    <3> QED  BY <1>1, <2>1, <2>2, <3>1, OidcLeave DEF AInv
  <2>8. GenInv'
    <3>1. GenLink(M, world.gens, setup.loadBalanced)
      BY <1>1, <2>1, <2>4 DEF AInv, GenInv, GenLink, SameLink
    <3> QED  BY <1>1, <2>3, <3>1 DEF AInv, GenInv
  <2> QED  BY <2>3, <2>5, <2>6, <2>7, <2>8 DEF AInv
<1> QED  BY <1>2, <1>3, <1>4 DEF Connect

\* The first message of a conversation.
LEMMA StartMechanismKeeps ==
    ASSUME NEW L, DOMAIN L = LinkFields, NEW cr
    PROVE  LET M == StartMechanism(L, cr)
           IN /\ Keeps(L, M) /\ M.token_gen_id = L.token_gen_id
              /\ M.pc \in AtRest \cup {"scram_first", "single", "aws_first", "challenge", "lock"}
<1> DEFINE Started == {"scram_first", "single", "aws_first", "challenge", "lock"}
<1>1. \/ StartMechanism(L, cr) = Failed(L)
      \/ \E p \in Started : StartMechanism(L, cr) = [L EXCEPT !.pc = p]
  BY SMT DEF StartMechanism, send_client_first
<1>2. ASSUME NEW p \in Started
      PROVE  LET M == [L EXCEPT !.pc = p]
             IN Keeps(L, M) /\ M.token_gen_id = L.token_gen_id /\ M.pc = p
  BY DEF Keeps, LinkFields, Early
<1>3. CASE StartMechanism(L, cr) = Failed(L)
  BY <1>3, FailedKeeps
<1>4. CASE \E p \in Started : StartMechanism(L, cr) = [L EXCEPT !.pc = p]
  <2>1. PICK p \in Started : StartMechanism(L, cr) = [L EXCEPT !.pc = p]
    BY <1>4
  <2> QED  BY <1>2, <2>1
<1> QED  BY <1>1, <1>3, <1>4

\* What the start of the conversation leaves of the connection.
LEMMA StartConversationKeeps ==
    ASSUME SaltedInv, NEW L, DOMAIN L = LinkFields, NEW cr, NEW mechs,
           L.first # None /\ IsScram(L.mech) => L.first.salt[2] = cr.username
    PROVE  LET M == StartConversation(L, cr, mechs)
           IN /\ Keeps(L, M) /\ M.token_gen_id = L.token_gen_id
              /\ M.pc \notin OidcStates
              /\ M.pc = "scram_final" => UsesOwn(M, cr)
<1> DEFINE M == StartConversation(L, cr, mechs)
<1>1. CASE L.first # None /\ IsScram(L.mech)
  <2>1. M = ScramFinal(L, cr, L.first)
    BY <1>1 DEF StartConversation, IsScram, Sha1, Sha256, X509
  <2> QED  BY SMT, <1>1, <2>1, ScramFinalKeeps, RestStates DEF OidcStates, CallbackStates
<1>2. CASE L.first # None /\ ~IsScram(L.mech)
  <2>1. M = [Succeeded(L) EXCEPT !.authed = TRUE] \/ M = [L EXCEPT !.pc = "lock"]
    BY <1>2 DEF StartConversation
  <2>2. CASE M = [Succeeded(L) EXCEPT !.authed = TRUE]
    BY <2>2, SucceededKeeps, RestStates
  <2>3. CASE M = [L EXCEPT !.pc = "lock"]
    BY SMT, <2>3 DEF Keeps, LinkFields, Early, OidcStates, CallbackStates
  <2> QED  BY <2>1, <2>2, <2>3
<1>3. CASE L.first = None
  <2>1. PICK m : M = StartMechanism([L EXCEPT !.mech = m], cr)
    BY <1>3 DEF StartConversation
  <2> DEFINE N == [L EXCEPT !.mech = m]
  <2>2. SameLink(L, N) /\ N.token_gen_id = L.token_gen_id
    BY DEF SameLink, LinkFields
  <2>3. M = StartMechanism(N, cr)
    BY <2>1
  <2> HIDE DEF N, M
  <2>4. /\ Keeps(N, M) /\ M.token_gen_id = L.token_gen_id
        /\ M.pc \in AtRest \cup {"scram_first", "single", "aws_first", "challenge", "lock"}
    BY <2>2, <2>3, StartMechanismKeeps DEF SameLink
  <2>5. Keeps(L, M)
    BY <2>2, <2>4, KeepsFrom
  <2> QED  BY <2>4, <2>5 DEF M, AtRest, OidcStates, CallbackStates
<1> QED  BY <1>1, <1>2, <1>3

\* An answer that came with the hello is one to the mechanism that was tried.
LEMMA SpeculativeNamesUser ==
    ASSUME NEW c, NEW r \in SpeculativeReplies(c), r # None, IsScram(link[c].mech)
    PROVE  r.salt[2] = Cred(c).username
<1>1. r \in ServerFirsts(link[c].mech, Cred(c))
  BY DEF SpeculativeReplies, IsScram, Sha1, Sha256, X509
<1> QED  BY <1>1, FirstNamesUser

\* What the answer to the hello leads to.
LEMMA HelloKeeps ==
    ASSUME SaltedInv, NEW M, DOMAIN M = LinkFields, NEW c,
           M.first # None /\ IsScram(M.mech) => M.first.salt[2] = Cred(c).username
    PROVE  LET cr == Cred(c)
               N == IF cr = None \/ Server.arbiter THEN Succeeded(M)
                    ELSE StartConversation(M, cr, SupportedMechs(cr))
           IN /\ DOMAIN N = LinkFields /\ N.token_gen_id = M.token_gen_id
              /\ N.hello = M.hello /\ N.service = M.service
              /\ N.snapshot = M.snapshot /\ N.cleared = M.cleared
              /\ N.established /\ cr # None /\ ~Server.arbiter => M.established \/ N.authed
              /\ N.generation = M.generation \/ N.generation = Derived(M) \/ ~M.hello
              /\ N.pc \notin Early \cup OidcStates
              /\ N.pc = "scram_final" => UsesOwn(N, cr)
<1> DEFINE cr == Cred(c)
<1>1. CASE cr = None \/ Server.arbiter
  <2> DEFINE N == Succeeded(M)
  <2>1. /\ DOMAIN N = LinkFields /\ N.token_gen_id = M.token_gen_id
        /\ N.hello = M.hello /\ N.service = M.service
        /\ N.snapshot = M.snapshot /\ N.cleared = M.cleared
        /\ N.generation = M.generation \/ N.generation = Derived(M) \/ ~M.hello
        /\ N.pc \in AtRest
    <3>1. CASE N = Failed(M)
      BY SMT, <3>1, FailedKeeps DEF Keeps
    <3>2. CASE N # Failed(M)
      BY <3>2 DEF Succeeded, LinkFields, AtRest
    <3> QED  BY <3>1, <3>2
  <2>2. N.pc \notin Early \cup OidcStates /\ N.pc # "scram_final"
    BY <2>1, RestStates DEF AtRest, Early
  <2> HIDE DEF N
  <2>3. N = IF cr = None \/ Server.arbiter THEN Succeeded(M)
            ELSE StartConversation(M, cr, SupportedMechs(cr))
    BY <1>1 DEF N
  <2> QED  BY <1>1, <2>1, <2>2, <2>3
<1>2. CASE ~(cr = None \/ Server.arbiter)
  <2> DEFINE N == StartConversation(M, cr, SupportedMechs(cr))
  <2>1. /\ Keeps(M, N) /\ N.token_gen_id = M.token_gen_id
        /\ N.pc \notin OidcStates
        /\ N.pc = "scram_final" => UsesOwn(N, cr)
    BY StartConversationKeeps
  <2> HIDE DEF N
  <2>2. N = IF cr = None \/ Server.arbiter THEN Succeeded(M)
            ELSE StartConversation(M, cr, SupportedMechs(cr))
    BY <1>2 DEF N
  <2> QED  BY <1>2, <2>1, <2>2 DEF Keeps
<1> QED  BY <1>1, <1>2

\* The reply to hello, with or without a speculative answer.
LEMMA HelloReplyInv ==
    ASSUME AInv, NEW c \in Sockets, HelloReply(c)
    PROVE  AInv'
<1> DEFINE L == link[c]
           cr == Cred(c)
           M(r, s) == [L EXCEPT !.hello = TRUE, !.service = s, !.compressor = SharedCompressor, !.first = r]
           After(K) == IF cr = None \/ Server.arbiter THEN Succeeded(K)
                       ELSE StartConversation(K, cr, SupportedMechs(cr))
<1>1. L.pc = "hello" /\ UNCHANGED <<setup, cache, holder, salted, world>>
  BY DEF HelloReply
<1>2. PICK r \in SpeculativeReplies(c), s \in Server.services : Put(c, After(M(r, s)))
  BY DEF HelloReply
<1> DEFINE K == M(r, s)
           N == After(K)
<1>3. /\ DOMAIN K = LinkFields /\ K.hello = TRUE /\ K.service = s /\ K.first = r
      /\ K.mech = L.mech /\ K.snapshot = L.snapshot /\ K.cleared = L.cleared
      /\ K.established = L.established /\ K.generation = L.generation
      /\ K.token_gen_id = L.token_gen_id /\ K.token_gen_id \in Nat
  BY InvShapes DEF LinkFields
<1>4. ~L.established /\ L.generation = None
  BY <1>1 DEF AInv, AuthInv, Early
<1>5. K.first # None /\ IsScram(K.mech) => K.first.salt[2] = Cred(c).username
  BY <1>3, SpeculativeNamesUser
<1> HIDE DEF K
<1>6. /\ DOMAIN N = LinkFields /\ N.token_gen_id = K.token_gen_id
      /\ N.hello = K.hello /\ N.service = K.service
      /\ N.snapshot = K.snapshot /\ N.cleared = K.cleared
      /\ N.established /\ cr # None /\ ~Server.arbiter => K.established \/ N.authed
      /\ N.generation = K.generation \/ N.generation = Derived(K) \/ ~K.hello
      /\ N.pc \notin Early \cup OidcStates
      /\ N.pc = "scram_final" => UsesOwn(N, cr)
  BY <1>3, <1>5, HelloKeeps DEF AInv
<1>7. Put(c, N)
  BY <1>2 DEF K
<1> HIDE DEF N
<1>8. /\ Shapes'
      /\ link'[c] = N
      /\ \A d \in Sockets \ {c} : link'[d] = link[d]
  BY <1>1, <1>3, <1>6, <1>7, InvShapes, ShapesStep DEF AInv
<1>9. \A d \in Sockets : Cred(d)' = Cred(d) /\ Server' = Server
  BY <1>1 DEF Cred, Server
<1>10. AuthInv'
  <2>1. EstablishedIsAuthenticated'
    BY SMT, <1>3, <1>4, <1>6, <1>8, <1>9 DEF AInv, AuthInv, EstablishedIsAuthenticated
  <2> QED  BY <1>6, <1>8, <2>1 DEF AInv, AuthInv
<1>11. SaltedInv'
  BY <1>1, <1>6, <1>8, <1>9 DEF AInv, SaltedInv
<1>12. OidcInv'
  BY <1>1, <1>6, <1>7, OidcLeave DEF AInv
<1>13. GenInv'
  <2>1. s \in Services \cup {None}
    BY SetupsAssumption DEF AInv, Shapes, Server
  <2>2. N.hello /\ N.service = s /\ N.snapshot = L.snapshot /\ N.cleared = L.cleared /\ N.pc # "idle"
    BY <1>3, <1>6 DEF Early
  <2>3. ASSUME setup.loadBalanced, N.generation # None
        PROVE  /\ N.service \in Services
               /\ N.generation = [service |-> N.service, generation |-> N.snapshot[N.service]]
    BY <1>3, <1>4, <1>6, <2>1, <2>2, <2>3 DEF Derived
  <2>4. GenLink(N, world.gens, setup.loadBalanced)
    BY <1>1, <2>1, <2>2, <2>3 DEF AInv, GenInv, GenLink
  <2> QED  BY <1>1, <1>8, <2>4 DEF AInv, GenInv
<1> QED  BY <1>8, <1>10, <1>11, <1>12, <1>13 DEF AInv

\* Tokens expire, passwords are set anew and services cleared.
LEMMA MeanwhileInv ==
    ASSUME AInv, Meanwhile
    PROVE  AInv'
<1>1. UNCHANGED <<setup, cache, holder, salted>>
  BY DEF Meanwhile
<1>2. \A d \in Sockets : Cred(d)' = Cred(d) /\ Server' = Server
  BY <1>1 DEF Cred, Server
<1>3. CASE Expire \/ SetPassword
  <2>1. UNCHANGED link /\ WorldShape(world') /\ world'.gens = world.gens
    BY <1>3, InvShapes DEF Expire, SetPassword, WorldShape
  <2>2. Shapes' /\ OidcInv' /\ GenInv'
    BY <1>1, <2>1 DEF AInv, Shapes, WorldShape, OidcInv, GenInv
  <2>3. AuthInv' /\ SaltedInv'
    BY <1>1, <1>2, <2>1 DEF AInv, AuthInv, SaltedInv, EstablishedIsAuthenticated
  <2> QED  BY <2>2, <2>3 DEF AInv
<1>4. CASE ClearService
  <2>1. PICK s \in Services :
          /\ world' = [world EXCEPT !.gens[s] = @ + 1, !.events = @ + 1]
          /\ link' = [c \in Sockets |-> IF link[c].pc = "idle" THEN link[c]
                                        ELSE [link[c] EXCEPT !.cleared = @ \cup {s}]]
    BY <1>4 DEF ClearService
  <2>2. WorldShape(world') /\ world'.gens = [world.gens EXCEPT ![s] = @ + 1]
    BY SMT, <2>1, InvShapes DEF WorldShape
  <2>3. ASSUME NEW c \in Sockets
        PROVE  /\ DOMAIN link'[c] = LinkFields
               /\ \A f \in LinkFields \ {"cleared"} : link'[c][f] = link[c][f]
               /\ link[c].pc = "idle" => link'[c].cleared = link[c].cleared
               /\ link[c].pc # "idle" => link'[c].cleared = link[c].cleared \cup {s}
    BY <2>1, InvShapes DEF LinkFields
  <2>4. ASSUME NEW c \in Sockets
        PROVE  /\ link'[c].pc = link[c].pc /\ link'[c].hello = link[c].hello
               /\ link'[c].service = link[c].service /\ link'[c].snapshot = link[c].snapshot
               /\ link'[c].generation = link[c].generation
               /\ link'[c].established = link[c].established /\ link'[c].authed = link[c].authed
               /\ link'[c].mech = link[c].mech /\ link'[c].first = link[c].first
               /\ link'[c].entry = link[c].entry /\ link'[c].proof = link[c].proof
               /\ link'[c].token_gen_id = link[c].token_gen_id
    BY <2>3 DEF LinkFields
  <2>5. Shapes'
    <3>1. link' = [c \in Sockets |-> link'[c]]
      BY <2>1
    <3> QED  BY <1>1, <2>2, <2>3, <2>4, <3>1 DEF AInv, Shapes, WorldShape
  <2>6. AuthInv'
    BY SMT, <1>1, <1>2, <2>4 DEF AInv, AuthInv, EstablishedIsAuthenticated
  <2>7. SaltedInv'
    BY SMT, <1>1, <1>2, <2>4 DEF AInv, SaltedInv, UsesOwn
  <2>8. OidcInv'
    BY <1>1, <2>4 DEF AInv, OidcInv
  <2>9. GenInv'
    <3>1. ASSUME NEW c \in Sockets, link[c].pc # "idle", NEW t \in Services
          PROVE  /\ link'[c].snapshot[t] <= world'.gens[t]
                 /\ t \in link'[c].cleared <=> link'[c].snapshot[t] < world'.gens[t]
      <4>1. /\ link[c].snapshot[t] \in Nat /\ world.gens[t] \in Nat
            /\ link[c].snapshot[t] <= world.gens[t]
            /\ t \in link[c].cleared <=> link[c].snapshot[t] < world.gens[t]
        BY <3>1, InvShapes DEF AInv, GenInv, GenLink, WorldShape
      <4>2. world'.gens[t] = IF t = s THEN world.gens[t] + 1 ELSE world.gens[t]
        BY <2>2, InvShapes DEF WorldShape
      <4>3. t \in link'[c].cleared <=> t \in link[c].cleared \/ t = s
        BY <2>3, <3>1
      <4>4. link'[c].snapshot[t] = link[c].snapshot[t]
        BY <2>4
      <4> QED  BY SMT, <4>1, <4>2, <4>3, <4>4
    <3>2. ASSUME NEW c \in Sockets
          PROVE  GenLink(link'[c], world'.gens, setup.loadBalanced)
      <4>1. GenLink(link[c], world.gens, setup.loadBalanced)
        BY DEF AInv, GenInv
      <4> QED  BY <2>3, <2>4, <3>1, <4>1 DEF GenLink
    <3> QED  BY <1>1, <3>2 DEF GenInv
  <2> QED  BY <2>5, <2>6, <2>7, <2>8, <2>9 DEF AInv
<1> QED  BY <1>3, <1>4 DEF Meanwhile

-----------------------------------------------------------------------------
(* The theorems.                                                           *)

\* The initial states.
LEMMA AInitInv == AInit => AInv
<1> SUFFICES ASSUME AInit PROVE AInv
  OBVIOUS
<1>1. \A c \in Sockets :
        /\ DOMAIN link[c] = LinkFields /\ link[c].pc = "idle" /\ ~link[c].established
        /\ ~link[c].hello /\ link[c].generation = None /\ link[c].cleared = {}
        /\ link[c].token_gen_id = 0
  BY DEF AInit, NewLink, LinkFields
<1>2. Shapes
  BY SMT, <1>1 DEF AInit, Shapes, EmptyCache
<1>3. AuthInv /\ SaltedInv
  BY <1>1 DEF AInit, AuthInv, SaltedInv, EstablishedIsAuthenticated
<1>4. OidcInv /\ GenInv
  BY <1>1 DEF OidcInv, GenInv, GenLink, OidcStates, CallbackStates, WithoutTokenStates
<1> QED  BY <1>2, <1>3, <1>4 DEF AInv

\* Every step.
LEMMA ANextInv == AInv /\ [ANext]_avars => AInv'
<1> SUFFICES ASSUME AInv, [ANext]_avars PROVE AInv'
  OBVIOUS
<1>1. ASSUME NEW c \in Sockets, Step(c) PROVE AInv'
  BY <1>1, BeginInv, ConnectInv, HelloReplyInv, StreamFailsInv, ScramFirstReplyInv, ScramFinalReplyInv,
     SingleReplyInv, AwsFirstReplyInv, AwsSecondReplyInv, GssapiReplyInv, GssapiLastReplyInv, AcquireInv,
     CachedReplyInv, CallbackReturnsInv, SingleStepReplyInv, RefreshedReplyInv, NoTokenReplyInv,
     ContinueReplyInv DEF Step
<1>2. CASE UNCHANGED avars
  <2>1. \A d \in Sockets : Cred(d)' = Cred(d) /\ Server' = Server
    BY <1>2 DEF Cred, Server, avars
  <2>2. AuthInv' /\ SaltedInv'
    BY <1>2, <2>1 DEF avars, AInv, AuthInv, SaltedInv, EstablishedIsAuthenticated
  <2>3. Shapes' /\ OidcInv' /\ GenInv'
    BY <1>2 DEF avars, AInv, Shapes, OidcInv, GenInv
  <2> QED  BY <2>2, <2>3 DEF AInv
<1> QED  BY <1>1, <1>2, ReauthenticateInv, MeanwhileInv DEF ANext

\* The invariant holds in every reachable state.
THEOREM AuthenticationInvariant == ASpec => []AInv
BY AInitInv, ANextInv, PTL DEF ASpec

\* No connection that the server has not authenticated is handed to the pool
\* (establish_connection, the conversations of client/auth/).
THEOREM AuthenticationEstablished == ASpec => []EstablishedIsAuthenticated
<1>1. AInv => EstablishedIsAuthenticated
  BY DEF AInv, AuthInv
<1> QED  BY <1>1, AuthenticationInvariant, PTL

\* CREDENTIAL_CACHE never mixes users up, for any number of clients of the
\* process: the salt in its key stands for the user (client/auth/scram.rs).
THEOREM AuthenticationSaltedPassword == ASpec => []SaltedPasswordIsOwn
<1>1. AInv => SaltedPasswordIsOwn
  <2> SUFFICES ASSUME AInv, NEW c \in Sockets, link[c].pc = "scram_final"
               PROVE  link[c].proof = compute_salted_password(link[c].mech, Cred(c), link[c].first)
    BY DEF SaltedPasswordIsOwn
  <2>1. UsesOwn(link[c], Cred(c))
    BY DEF AInv, SaltedInv
  <2> QED  BY SMT, <2>1 DEF UsesOwn, PasswordOf, CacheEntry, compute_salted_password
<1> QED  BY <1>1, AuthenticationInvariant, PTL

\* The callback of OIDC is called by one connection at a time and only for
\* want of a token, however many connections share the credential
\* (client/auth/oidc.rs).
THEOREM AuthenticationOneCallback == ASpec => []OneCallbackWhenNeeded
<1>1. AInv => OneCallbackWhenNeeded
  BY SetupsAssumption
     DEF AInv, OidcInv, OneCallbackWhenNeeded, OidcStates, WithoutTokenStates, CallbackStates
<1> QED  BY <1>1, AuthenticationInvariant, PTL

\* A connection to a load balancer is stale exactly if its service was cleared
\* after the connection began (PoolGeneration, establish_connection).
THEOREM AuthenticationGeneration == ASpec => []StaleIffCleared
<1>1. AInv => StaleIffCleared
  <2> SUFFICES ASSUME AInv, NEW c \in Sockets, setup.loadBalanced, link[c].generation # None, link[c].hello
               PROVE  (link[c].generation.generation < world.gens[link[c].service])
                        = (link[c].service \in link[c].cleared)
    BY DEF StaleIffCleared
  <2>1. GenLink(link[c], world.gens, setup.loadBalanced)
    BY DEF AInv, GenInv
  <2> QED  BY SMT, <2>1 DEF GenLink
<1> QED  BY <1>1, AuthenticationInvariant, PTL
=============================================================================
