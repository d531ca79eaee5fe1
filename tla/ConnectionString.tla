-------------------------- MODULE ConnectionString --------------------------
(***************************************************************************)
(* From a connection string to ClientOptions (client/options.rs,           *)
(* client/options/parse.rs) by way of the SRV and TXT records of           *)
(* mongodb+srv (srv.rs), and from a ConnectionString back to a string.     *)
(*                                                                         *)
(* A string is given as its pieces: the user information, the hosts, the   *)
(* database and the sequence of option pairs.  A piece that percent        *)
(* decoding or its own syntax refuses is one of the words below.  The      *)
(* build has every feature but openssl-tls.                                *)
(***************************************************************************)
EXTENDS Integers, Sequences, FiniteSets, Credentials
LOCAL INSTANCE SequencesExt

CONSTANTS
    Uris,        \* families of the connection strings considered
    Answers      \* what the resolver may answer for the name of mongodb+srv

VARIABLES
    uri,         \* the string
    stage,       \* "string", "parsed", "refused" or "ready"
    conn,        \* the ConnectionString
    answer,      \* the answer of the resolver that was used
    options      \* the ClientOptions

uvars == <<uri, stage, conn, answer, options>>

----------------------------------------------------------------------------
(* Values of options: a word, a number or a list.                          *)

NotANumber == -9
Word(t) == [text |-> t, n |-> NotANumber, list |-> <<>>]
Num(n) == [text |-> "", n |-> n, list |-> <<>>]
List(s) == [text |-> "", n |-> NotANumber, list |-> s]
Pair(k, v) == [key |-> k, value |-> v]

Unencoded == "unencoded"      \* refused by percent decoding
Malformed == "malformed"      \* an entry without its separator

\* Options that are stored as they are given.
Flags == {"directConnection", "loadBalanced", "retryReads", "retryWrites", "enableOverloadRetargeting"}
Numbers == {"connectTimeoutMS", "heartbeatFrequencyMS", "localThresholdMS", "maxIdleTimeMS",
            "serverSelectionTimeoutMS", "socketTimeoutMS", "waitQueueTimeoutMS", "maxPoolSize",
            "minPoolSize", "maxConnecting", "srvMaxHosts", "maxAdaptiveRetries"}
Names == {"appName", "readConcernLevel", "replicaSet", "srvServiceName"}
Enumerations == [serverMonitoringMode |-> {"stream", "poll", "auto"},
                 uuidRepresentation |-> {"csharplegacy", "javalegacy", "pythonlegacy"}]
Stored == Flags \cup Numbers \cup Names \cup DOMAIN Enumerations

EnabledTls == [enabled |-> TRUE, tlsAllowInvalidCertificates |-> None, tlsCAFile |-> None,
               tlsCertificateKeyFile |-> None, tlsCertificateKeyFilePassword |-> None]
DisabledTls == [EnabledTls EXCEPT !.enabled = FALSE]

NewCredential ==
    [username |-> None, password |-> None, source |-> None, mechanism |-> None, properties |-> None,
     callback |-> FALSE]

NewConn(srv, hosts) ==
    [srv |-> srv, hosts |-> hosts, stored |-> [k \in Stored |-> None], tls |-> None, tls_insecure |-> None,
     write_concern |-> None, read_preference |-> None, compressors |-> None, credential |-> None,
     default_database |-> None, socks5_proxy |-> None]

\* ConnectionStringParts: what is only used once every pair is read.
PartKeys == {"authMechanism", "authSource", "authMechanismProperties", "readPreferenceTags",
             "maxStalenessSeconds", "zlibCompressionLevel", "proxyHost", "proxyPort",
             "proxyUsername", "proxyPassword"}
NewParts == [k \in PartKeys |-> None]

IsTrue(v) == v # None /\ v.text = "true"
IsPositive(v) == v # None /\ v.n > 0

----------------------------------------------------------------------------
(* parse_option_pair, on the ConnectionString and the parts read so far.   *)

IsBool(v) == v.text \in {"true", "false"}

Refuse(p) == [p EXCEPT !.ok = FALSE]
Unless(refused, p) == [p EXCEPT !.ok = ~refused]

StoredPair(p, k, v) ==
    LET valid == CASE k \in Flags               -> IsBool(v)
                   [] k \in Numbers             -> v.n >= 0
                   [] k \in DOMAIN Enumerations -> v.text \in Enumerations[k]
                   [] OTHER                     -> TRUE
    IN  Unless(~valid, [p EXCEPT !.conn.stored[k] = v])

WriteConcernPair(p, k, v) ==
    LET wc == IF p.conn.write_concern = None THEN [w |-> None, wtimeoutMS |-> None, journal |-> None]
              ELSE p.conn.write_concern
        valid == CASE k = "journal"    -> IsBool(v)
                   [] k = "wtimeoutMS" -> v.n >= 0
                   [] k = "w"          -> v.text # "" \/ v.n >= 0
    IN  Unless(~valid, [p EXCEPT !.conn.write_concern = [wc EXCEPT ![k] = v]])

\* Mutant: disabling TLS after other TLS options is not an error.
TlsPair_Last(p, k, v) ==
    IF ~IsBool(v) THEN Refuse(p)
    ELSE IF p.conn.tls = None THEN [p EXCEPT !.conn.tls = IF IsTrue(v) THEN EnabledTls ELSE DisabledTls]
    ELSE Unless(~p.conn.tls.enabled /\ IsTrue(v), p)

\* tls and its alias ssl.
TlsPair(p, k, v) ==
    LET tls == p.conn.tls IN
    IF ~IsBool(v) THEN Refuse(p)
    ELSE IF tls = None THEN [p EXCEPT !.conn.tls = IF IsTrue(v) THEN EnabledTls ELSE DisabledTls]
    ELSE Unless(tls.enabled # IsTrue(v), p)

\* tlsInsecure, tlsAllowInvalidCertificates and the files.
TlsOptionPair(p, k, v) ==
    LET tls == IF p.conn.tls = None THEN EnabledTls ELSE p.conn.tls
        set == IF k = "tlsInsecure" THEN "tlsAllowInvalidCertificates" ELSE k
    IN  IF ~tls.enabled \/ (set = "tlsAllowInvalidCertificates" /\ ~IsBool(v)) THEN Refuse(p)
        ELSE [p EXCEPT !.conn.tls = [tls EXCEPT ![set] = v],
                       !.conn.tls_insecure = IF k = "tlsInsecure" THEN v ELSE @]

Modes == {"primary", "secondary", "primaryPreferred", "secondaryPreferred", "nearest"}

ReadPreferencePair(p, k, v) ==
    Unless(v.text \notin Modes,
           [p EXCEPT !.conn.read_preference = [mode |-> v.text, tag_sets |-> None, max_staleness |-> None]])

ReadPreferenceTagsPair(p, k, v) ==
    Unless(v.text = Malformed,
           [p EXCEPT !.parts.readPreferenceTags = (IF @ = None THEN <<>> ELSE @) \o <<v.text>>])

MaxStalenessPair(p, k, v) ==
    IF v.n = -1 THEN p ELSE Unless(v.n < -1, [p EXCEPT !.parts.maxStalenessSeconds = v])

CompressorNames == {"zstd", "zlib", "snappy"}

CompressorsPair(p, k, v) ==
    Unless(~(ToSet(v.list) \subseteq CompressorNames),
           [p EXCEPT !.conn.compressors = [i \in DOMAIN v.list |-> [name |-> v.list[i], level |-> None]]])

Mechanisms == {Sha1, Sha256, "MONGODB-CR", X509, "GSSAPI", "PLAIN", Oidc, "MONGODB-AWS"}

PropertiesOfOptionsOnly == {"ALLOWED_HOSTS", "OIDC_CALLBACK", "OIDC_HUMAN_CALLBACK"}

PartPair(p, k, v) ==
    LET valid == CASE k = "authMechanism"           -> v.text \in Mechanisms
                   [] k = "authMechanismProperties" ->
                        ToSet(v.list) \cap ({Malformed} \cup PropertiesOfOptionsOnly) = {}
                   [] k = "zlibCompressionLevel"    -> v.n \in -1..9
                   [] k = "proxyPort"               -> v.n \in 0..65535
                   [] k \in {"proxyUsername", "proxyPassword"} -> v.text # ""
                   [] OTHER                         -> TRUE
    IN  Unless(~valid, [p EXCEPT !.parts[k] = v])

parse_option_pair(p, k, v) ==
    CASE k \in Stored                            -> StoredPair(p, k, v)
      [] k \in {"w", "wtimeoutMS", "journal"}    -> WriteConcernPair(p, k, v)
      [] k \in {"tls", "ssl"}                    -> TlsPair(p, k, v)
      [] k \in (DOMAIN EnabledTls \ {"enabled"}) \cup {"tlsInsecure"} -> TlsOptionPair(p, k, v)
      [] k = "readPreference"                    -> ReadPreferencePair(p, k, v)
      [] k = "readPreferenceTags"                -> ReadPreferenceTagsPair(p, k, v)
      [] k = "maxStalenessSeconds"               -> MaxStalenessPair(p, k, v)
      [] k = "compressors"                       -> CompressorsPair(p, k, v)
      [] k \in PartKeys \ {"readPreferenceTags", "maxStalenessSeconds"} -> PartPair(p, k, v)
      [] OTHER                                   -> Refuse(p)

----------------------------------------------------------------------------
(* parse_options: the pairs in order, then what depends on several.        *)

NextPair(p, pair) ==
    IF ~p.ok THEN p
    ELSE IF pair.key = Malformed \/ (pair.key \in p.keys /\ pair.key # "readPreferenceTags") THEN Refuse(p)
    ELSE parse_option_pair([p EXCEPT !.keys = @ \cup {pair.key}], pair.key, pair.value)

\* with_tags and with_max_staleness.
WithReadPreference(p) ==
    LET tags == p.parts.readPreferenceTags
        staleness == p.parts.maxStalenessSeconds
        rp == p.conn.read_preference
    IN  IF tags = None /\ staleness = None THEN p
        ELSE IF rp = None \/ rp.mode = "primary" THEN Refuse(p)
        ELSE [p EXCEPT !.conn.read_preference.tag_sets = tags,
                       !.conn.read_preference.max_staleness = staleness]

write_zlib_level(c, level) ==
    IF c.name # "zlib" THEN c ELSE [c EXCEPT !.level = IF level.n = -1 THEN None ELSE level]

WithZlibLevel(p) ==
    IF p.parts.zlibCompressionLevel = None \/ p.conn.compressors = None THEN p
    ELSE [p EXCEPT !.conn.compressors = [i \in DOMAIN @ |-> write_zlib_level(@[i], p.parts.zlibCompressionLevel)]]

parse_options(c, pairs) ==
    LET read == FoldLeft(NextPair, [conn |-> c, parts |-> NewParts, keys |-> {}, ok |-> TRUE], pairs)
        preferred == WithReadPreference(read)
    IN  IF ~read.ok \/ {"tlsInsecure", "tlsAllowInvalidCertificates"} \subseteq read.keys
           \/ (c.srv /\ IsTrue(read.conn.stored.directConnection)) THEN Refuse(read)
        ELSE IF ~preferred.ok THEN preferred
        ELSE WithZlibLevel(preferred)

----------------------------------------------------------------------------
(* ConnectionString::parse.                                                *)

LowerCase(h) == IF h = "A" THEN "a" ELSE h

\* ServerAddress::parse; the form of an address is "tcp", "unix" or malformed.
AddressParsed(h) == h.form = "unix" \/ (h.form = "tcp" /\ (h.port = None \/ h.port \in 1..65535))
Address(h) == IF h.form = "tcp" THEN [h EXCEPT !.host = LowerCase(@)] ELSE h

HostsParsed(u) ==
    /\ \A i \in DOMAIN u.hosts : AddressParsed(u.hosts[i])
    /\ u.srv => Len(u.hosts) = 1 /\ u.hosts[1].form = "tcp" /\ u.hosts[1].port = None

\* srvServiceName and srvMaxHosts, with the options they exclude.
SrvOptionsAllowed(c) ==
    /\ c.stored.srvServiceName # None \/ c.stored.srvMaxHosts # None => c.srv
    /\ IsPositive(c.stored.srvMaxHosts) => c.stored.replicaSet = None /\ ~IsTrue(c.stored.loadBalanced)

\* The credential of the user information alone; a password without a user
\* is dropped.
UserCredential(u) ==
    IF u.user \in {None, ""} THEN None ELSE [NewCredential EXCEPT !.username = u.user, !.password = u.password]

AuthSource(parts) == IF parts.authSource = None THEN None ELSE parts.authSource.text

MechanismProperties(parts) ==
    LET mechanism == parts.authMechanism.text
        given == IF parts.authMechanismProperties = None THEN {} ELSE ToSet(parts.authMechanismProperties.list)
    IN  IF mechanism = "GSSAPI" THEN given \cup {"SERVICE_NAME"}
        ELSE IF parts.authMechanismProperties = None THEN None
        ELSE given

CredentialOf(u, parts) ==
    LET user == UserCredential(u) IN
    IF parts.authMechanism # None
    THEN [(IF user = None THEN NewCredential ELSE user) EXCEPT
            !.source = AuthSource(parts), !.mechanism = parts.authMechanism.text,
            !.properties = MechanismProperties(parts)]
    ELSE IF user = None THEN None ELSE [user EXCEPT !.source = AuthSource(parts)]

CredentialAllowed(u, parts) ==
    LET cr == CredentialOf(u, parts) IN
    /\ AuthSource(parts) # ""
    /\ IF parts.authMechanism # None
       THEN "CANONICALIZE_HOST_NAME misspelt" \notin Properties(cr) /\ ValidCredential(cr.mechanism, cr)
       ELSE u.user # None => cr # None

Proxy(parts) ==
    IF parts.proxyHost = None THEN None
    ELSE [host |-> parts.proxyHost, port |-> parts.proxyPort,
          authentication |-> IF parts.proxyUsername = None THEN None
                             ELSE <<parts.proxyUsername, parts.proxyPassword>>]
ProxyAllowed(parts) ==
    IF parts.proxyHost = None
    THEN \A k \in {"proxyPort", "proxyUsername", "proxyPassword"} : parts[k] = None
    ELSE (parts.proxyUsername = None) <=> (parts.proxyPassword = None)

\* The ConnectionString, or None for an error.  The user of a string without
\* an '@' is None, and is "" when nothing stands before the '@'.
parse(u) ==
    LET p == parse_options(NewConn(u.srv, [i \in DOMAIN u.hosts |-> Address(u.hosts[i])]), u.options)
        c == p.conn
    IN  IF /\ u.user # Unencoded /\ u.password # Unencoded
           /\ HostsParsed(u)
           /\ u.db # Unencoded
           /\ p.ok
           /\ SrvOptionsAllowed(c)
           /\ CredentialAllowed(u, p.parts)
           /\ ProxyAllowed(p.parts)
        THEN [c EXCEPT !.credential = CredentialOf(u, p.parts),
                       !.default_database = IF u.db = "" THEN None ELSE u.db,
                       !.tls = IF @ = None /\ c.srv THEN EnabledTls ELSE @,
                       !.socks5_proxy = Proxy(p.parts)]
        ELSE None

----------------------------------------------------------------------------
(* ConnectionString::unparse.  The pairs are not in the order of the code. *)

Emit(k, v) == IF v = None THEN <<>> ELSE <<Pair(k, v)>>
EmitText(k, t) == IF t = None THEN <<>> ELSE <<Pair(k, Word(t))>>
EmitAll(keys, f) == FlattenSeq(SetToSeq({Emit(k, f[k]) : k \in keys}))

\* ServerAddress::unparse always writes a port.
UnparsedAddress(h) == IF h.form = "tcp" /\ h.port = None THEN [h EXCEPT !.port = 27017] ELSE h

UnparsedTls(c) ==
    IF c.tls = None THEN <<>>
    ELSE IF ~c.tls.enabled THEN <<Pair("tls", Word("false"))>>
    ELSE <<Pair("tls", Word("true"))>> \o EmitAll(DOMAIN c.tls \ {"enabled"}, c.tls)
         \o Emit("tlsInsecure", c.tls_insecure)

UnparsedCompressors(c) ==
    IF c.compressors = None THEN <<>>
    ELSE LET levels == SelectSeq(c.compressors, LAMBDA z : z.level # None) IN
         <<Pair("compressors", List([i \in DOMAIN c.compressors |-> c.compressors[i].name]))>>
         \o [i \in DOMAIN levels |-> Pair("zlibCompressionLevel", levels[i].level)]

UnparsedReadPreference(c) ==
    LET rp == c.read_preference IN
    IF rp = None THEN <<>>
    ELSE EmitText("readPreference", rp.mode) \o Emit("maxStalenessSeconds", rp.max_staleness)
         \o (IF rp.tag_sets = None THEN <<>>
             ELSE [i \in DOMAIN rp.tag_sets |-> Pair("readPreferenceTags", Word(rp.tag_sets[i]))])

UnparsedCredential(c) ==
    LET cr == c.credential IN
    IF cr = None THEN <<>>
    ELSE EmitText("authSource", cr.source) \o EmitText("authMechanism", cr.mechanism)
         \o (IF Properties(cr) = {} THEN <<>>
             ELSE <<Pair("authMechanismProperties", List(SetToSeq(cr.properties)))>>)

UnparsedProxy(c) ==
    LET proxy == c.socks5_proxy IN
    IF proxy = None THEN <<>>
    ELSE <<Pair("proxyHost", proxy.host)>> \o Emit("proxyPort", proxy.port)
         \o (IF proxy.authentication = None THEN <<>>
             ELSE <<Pair("proxyUsername", proxy.authentication[1]), Pair("proxyPassword", proxy.authentication[2])>>)

NotUnparsed == {"serverMonitoringMode", "srvServiceName"}

unparse(c) ==
    LET named == c.credential # None /\ c.credential.username # None IN
    [srv |-> c.srv,
     user |-> IF named THEN c.credential.username ELSE None,
     password |-> IF named THEN c.credential.password ELSE None,
     hosts |-> IF c.srv THEN c.hosts ELSE [i \in DOMAIN c.hosts |-> UnparsedAddress(c.hosts[i])],
     db |-> IF c.default_database = None THEN "" ELSE c.default_database,
     options |-> EmitAll(Stored \ NotUnparsed, c.stored) \o UnparsedTls(c) \o UnparsedCompressors(c)
                 \o (IF c.write_concern = None THEN <<>> ELSE EmitAll(DOMAIN c.write_concern, c.write_concern))
                 \o UnparsedReadPreference(c) \o UnparsedCredential(c) \o UnparsedProxy(c)]

----------------------------------------------------------------------------
(* The records of mongodb+srv.  An answer has the hosts of the SRV records *)
(* and the TXT records, each a sequence of pairs.                          *)

\* RawLookupHosts::normalize and NormalLookupHosts::validate: with
\* DomainMismatch::Error a host of another domain ends the lookup.
LookupValid(a) == a.found /\ a.hosts # <<>> /\ \A i \in DOMAIN a.hosts : a.hosts[i].ownDomain
LookupHosts(a) == [i \in DOMAIN a.hosts |-> [form |-> "tcp", host |-> LowerCase(a.hosts[i].host), port |-> a.hosts[i].port]]

NoConfig == [ok |-> TRUE, authSource |-> None, replicaSet |-> None, loadBalanced |-> None]

TxtPair(config, pair) ==
    IF ~config.ok \/ pair.key \notin {"authSource", "replicaSet", "loadBalanced"}
       \/ (pair.key = "loadBalanced" /\ ~IsBool(pair.value)) THEN [config EXCEPT !.ok = FALSE]
    ELSE [config EXCEPT ![pair.key] = pair.value]

get_txt_options(a) ==
    CASE Len(a.txt) = 0 -> NoConfig
      [] Len(a.txt) = 1 -> FoldLeft(TxtPair, NoConfig, a.txt[1])
      [] OTHER          -> [NoConfig EXCEPT !.ok = FALSE]

----------------------------------------------------------------------------
(* ParseConnectionString::execute.                                         *)

\* from_connection_string: the source of a credential that names none.
WithDefaultSource(c) ==
    LET cr == c.credential IN
    IF cr = None \/ cr.source # None THEN c
    ELSE [c EXCEPT !.credential.source =
            IF cr.mechanism # None THEN default_source(cr.mechanism, c.default_database)
            ELSE IF c.default_database # None THEN c.default_database
            ELSE "admin"]

\* verify_max_staleness, in milliseconds.
StalenessAllowed(c) ==
    c.read_preference # None /\ c.read_preference.max_staleness # None =>
        LET heartbeat == IF c.stored.heartbeatFrequencyMS = None THEN 10000 ELSE c.stored.heartbeatFrequencyMS.n
            staleness == c.read_preference.max_staleness.n * 1000
        IN  staleness >= 90000 /\ staleness >= heartbeat + 10000

\* ClientOptions::validate.
validate(c) ==
    /\ IsTrue(c.stored.directConnection) => Len(c.hosts) <= 1
    /\ c.write_concern # None => ~(c.write_concern.w = Num(0) /\ IsTrue(c.write_concern.journal))
    /\ IsTrue(c.stored.loadBalanced) =>
        Len(c.hosts) <= 1 /\ c.stored.replicaSet = None /\ ~IsTrue(c.stored.directConnection)
    /\ c.stored.maxPoolSize # Num(0) /\ c.stored.maxConnecting # Num(0)
    /\ StalenessAllowed(c)
    /\ c.stored.heartbeatFrequencyMS # None => c.stored.heartbeatFrequencyMS.n >= 500
    /\ c.socks5_proxy # None => \A i \in DOMAIN c.hosts : c.hosts[i].form = "tcp"

\* Mutant: whether the string has an authSource is asked after the default.
WithTxtSource_Late(c, config) == WithDefaultSource(c)

\* The source of the TXT record replaces a default, never an authSource.
WithTxtSource(c, config) ==
    LET defaulted == WithDefaultSource(c) IN
    IF c.credential # None /\ config.authSource # None /\ c.credential.source = None
    THEN [defaulted EXCEPT !.credential.source = config.authSource.text]
    ELSE defaulted

OrElse(v, w) == IF v # None THEN v ELSE w

WithRecords(c, config) ==
    [WithTxtSource(c, config) EXCEPT !.stored.replicaSet = OrElse(@, config.replicaSet),
                                     !.stored.loadBalanced = OrElse(@, config.loadBalanced),
                                     !.tls = IF @ = None THEN EnabledTls ELSE @]

\* choose_n: any hosts, as many as srvMaxHosts allows.
ChosenHosts(hosts, max) ==
    IF ~IsPositive(max) \/ max.n >= Len(hosts) THEN {hosts}
    ELSE {[i \in 1..max.n |-> hosts[f[i]]] : f \in {g \in [1..max.n -> DOMAIN hosts] :
                                                        \A i, j \in 1..max.n : i < j => g[i] < g[j]}}

\* The ClientOptions a ConnectionString may give with an answer; none is an error.
SrvOptions(c, a) ==
    LET config == get_txt_options(a)
        o == WithRecords(c, config)
    IN  IF ~LookupValid(a) \/ ~config.ok \/ ~SrvOptionsAllowed(o) THEN {}
        ELSE {[o EXCEPT !.hosts = hosts] : hosts \in ChosenHosts(LookupHosts(a), o.stored.srvMaxHosts)}

execute(c, a) ==
    IF c.stored.socketTimeoutMS # None THEN {}
    ELSE {o \in (IF c.srv THEN SrvOptions(c, a) ELSE {WithDefaultSource(c)}) : validate(o)}

----------------------------------------------------------------------------
NoAnswer == [found |-> FALSE, hosts |-> <<>>, txt |-> <<>>]

UInit ==
    /\ \E i \in DOMAIN Uris : uri \in Uris[i]
    /\ stage = "string"
    /\ conn = None /\ options = None /\ answer = NoAnswer

Parse ==
    /\ stage = "string"
    /\ \E c \in {parse(uri)} :
        /\ conn' = c
        /\ stage' = IF c = None THEN "refused" ELSE "parsed"
    /\ UNCHANGED <<uri, answer, options>>

ExecuteParse ==
    /\ stage = "parsed"
    /\ answer' \in (IF conn.srv THEN Answers ELSE {NoAnswer})
    /\ \E accepted \in {execute(conn, answer')} :
        \/ accepted = {} /\ stage' = "refused" /\ UNCHANGED options
        \/ accepted # {} /\ options' \in accepted /\ stage' = "ready"
    /\ UNCHANGED <<uri, conn>>

UNext == Parse \/ ExecuteParse

USpec == UInit /\ [][UNext]_uvars

----------------------------------------------------------------------------
(* Properties.                                                             *)

\* Two ConnectionStrings are equal when their addresses are, for which a
\* missing port is 27017 (PartialEq of ServerAddress).
SameConnection(c, d) ==
    /\ d # None
    /\ [c EXCEPT !.hosts = <<>>] = [d EXCEPT !.hosts = <<>>]
    /\ [i \in DOMAIN c.hosts |-> UnparsedAddress(c.hosts[i])] = [i \in DOMAIN d.hosts |-> UnparsedAddress(d.hosts[i])]

Exchanged(s, i) == [s EXCEPT ![i] = s[i + 1], ![i + 1] = s[i]]

\* What unparse is known not to keep: options it leaves out, tlsInsecure, which
\* it writes next to tlsAllowInvalidCertificates, and the level of several zlib
\* compressors.
LossyOptions == {"serverMonitoringMode", "srvServiceName", "tlsInsecure"}
Lossy ==
    \/ \E i \in DOMAIN uri.options : uri.options[i].key \in LossyOptions
    \/ conn.compressors # None /\ Cardinality({i \in DOMAIN conn.compressors : conn.compressors[i].level # None}) > 1

\* A connection string means the same however it is written.  Although
\* parse_option_pair reads what earlier pairs have set (TLS most of all),
\* exchanging two neighbours of different keys changes neither the
\* ConnectionString nor whether it is refused, and the string that unparse
\* writes for what was parsed is parsed to the same again.
SpellingIrrelevant ==
    /\ stage \in {"parsed", "refused"} =>
         \A i \in 1..(Len(uri.options) - 1) :
            uri.options[i].key # uri.options[i + 1].key =>
                parse([uri EXCEPT !.options = Exchanged(@, i)]) = conn
    /\ stage = "parsed" /\ ~Lossy => SameConnection(conn, parse(unparse(conn)))

\* The hosts of mongodb+srv are connected to with TLS unless the string itself
\* disables it, and a string that has a TLS option never ends without TLS.
HasOption(k, t) == \E i \in DOMAIN uri.options : uri.options[i].key = k /\ uri.options[i].value.text = t
Disabled == HasOption("tls", "false") \/ HasOption("ssl", "false")
TlsUnlessDisabled ==
    LET tls == options.tls IN
    /\ options.srv => tls # None
    /\ Disabled <=> tls # None /\ ~tls.enabled
    /\ Disabled => \A k \in DOMAIN EnabledTls \ {"enabled"} : tls[k] = None

\* What the string says wins over the TXT record: its replicaSet, its
\* loadBalanced and its authSource.  The source of the TXT record in turn wins
\* over the database of the string and over the default of the mechanism.
UserWins ==
    LET cr == options.credential
        config == get_txt_options(answer)
        given == {i \in DOMAIN uri.options : uri.options[i].key = "authSource"}
    IN  /\ \A k \in {"replicaSet", "loadBalanced"} :
            conn.stored[k] # None => options.stored[k] = conn.stored[k]
        /\ cr # None =>
            cr.source = IF given # {} THEN uri.options[CHOOSE i \in given : TRUE].value.text
                        ELSE IF config.authSource # None THEN config.authSource.text
                        ELSE IF cr.mechanism = None
                        THEN IF uri.db \in {None, ""} THEN "admin" ELSE uri.db
                        ELSE default_source(cr.mechanism, IF uri.db = "" THEN None ELSE uri.db)

\* What ClientOptions::parse returns is coherent, whichever of the string and
\* the TXT record an option came from: one seed for a direct connection and
\* for a load balancer, no replica set behind a load balancer or together
\* with srvMaxHosts, no more hosts than srvMaxHosts, TLS as the string asks for
\* it, and what the string says before what the TXT record says.
AcceptedIsCoherent ==
    stage = "ready" =>
        LET o == options.stored IN
        /\ IsTrue(o.directConnection) => Len(options.hosts) <= 1 /\ ~options.srv /\ ~IsTrue(o.loadBalanced)
        /\ IsTrue(o.loadBalanced) => Len(options.hosts) = 1 /\ o.replicaSet = None
        /\ IsPositive(conn.stored.srvMaxHosts) =>
            Len(options.hosts) <= conn.stored.srvMaxHosts.n /\ o.replicaSet = None /\ ~IsTrue(o.loadBalanced)
        /\ TlsUnlessDisabled /\ UserWins

\* The string that unparse writes is parsed to the same ConnectionString.
RoundTrip == stage = "parsed" => SameConnection(conn, parse(unparse(conn)))

\* A credential that is accepted is one its mechanism can use.
AcceptedCredentialIsValid ==
    stage = "ready" /\ options.credential # None /\ options.credential.mechanism # None =>
        ValidCredential(options.credential.mechanism, options.credential)
=============================================================================
