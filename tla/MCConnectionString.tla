------------------------- MODULE MCConnectionString -------------------------
(* Connection strings and answers of the resolver for TLC.                 *)
EXTENDS ConnectionString

Tcp(h, p) == [form |-> "tcp", host |-> h, port |-> p]
Unix == [form |-> "unix", host |-> "/s", port |-> None]
Only(h) == <<Tcp(h, None)>>

\* The strings with each of the given users, passwords, hosts, databases and options.
Family(srv, users, passwords, hosts, dbs, pairs) ==
    [srv : srv, user : users, password : passwords, hosts : hosts, db : dbs, options : pairs]

Booleans(k) == {Pair(k, Word("true")), Pair(k, Word("false"))}

StoredPairs ==
    UNION {Booleans(k) : k \in Flags}
    \cup {Pair("retryReads", Word("maybe")), Pair("appName", Word("app")), Pair("replicaSet", Word("rs")),
          Pair("readConcernLevel", Word("local")), Pair("srvServiceName", Word("customname")),
          Pair("serverMonitoringMode", Word("poll")), Pair("serverMonitoringMode", Word("other")),
          Pair("uuidRepresentation", Word("javalegacy")), Pair("uuidRepresentation", Word("standard")),
          Pair("maxPoolSize", Num(0)), Pair("maxPoolSize", Num(5)), Pair("minPoolSize", Num(0)),
          Pair("maxConnecting", Num(0)), Pair("maxConnecting", Num(2)),
          Pair("heartbeatFrequencyMS", Num(499)), Pair("heartbeatFrequencyMS", Num(500)),
          Pair("heartbeatFrequencyMS", Num(81000)), Pair("srvMaxHosts", Num(0)), Pair("srvMaxHosts", Num(1)),
          Pair("srvMaxHosts", Num(2)), Pair("connectTimeoutMS", Num(-1)), Pair("connectTimeoutMS", Num(0)),
          Pair("localThresholdMS", Num(15)), Pair("maxIdleTimeMS", Num(1)), Pair("maxAdaptiveRetries", Num(2)),
          Pair("serverSelectionTimeoutMS", Num(1)), Pair("socketTimeoutMS", Num(1)), Pair("waitQueueTimeoutMS", Num(1))}

TlsPairs ==
    Booleans("tls") \cup Booleans("ssl") \cup Booleans("tlsInsecure") \cup Booleans("tlsAllowInvalidCertificates")
    \cup {Pair("tls", Word("maybe")), Pair("tlsCAFile", Word("ca")), Pair("tlsCertificateKeyFile", Word("cert")),
          Pair("tlsCertificateKeyFilePassword", Word("secret"))}

AuthPairs ==
    {Pair("authMechanism", Word(m)) : m \in Mechanisms \cup {"OTHER"}}
    \cup {Pair("authSource", Word(s)) : s \in {"", "app", "$external"}}
    \cup {Pair("authMechanismProperties", List(s)) :
            s \in {<<"SERVICE_NAME">>, <<"CANONICALIZE_HOST_NAME">>, <<"CANONICALIZE_HOST_NAME misspelt">>,
                   <<"azure", "TOKEN_RESOURCE">>, <<"k8s">>, <<"k8s", "TOKEN_RESOURCE">>, <<"azure">>,
                   <<"elsewhere">>, <<"ALLOWED_HOSTS">>, <<"k8s", Malformed>>}}

OtherPairs ==
    {Pair("w", Num(-1)), Pair("w", Num(0)), Pair("w", Word("majority")), Pair("wtimeoutMS", Num(5)),
     Pair("compressors", List(<<"zstd", "zlib">>)), Pair("compressors", List(<<"zlib", "zlib">>)),
     Pair("compressors", List(<<"lz4">>)), Pair("zlibCompressionLevel", Num(-2)), Pair("zlibCompressionLevel", Num(-1)),
     Pair("zlibCompressionLevel", Num(9)), Pair("zlibCompressionLevel", Num(10)),
     Pair("maxStalenessSeconds", Num(-2)), Pair("maxStalenessSeconds", Num(-1)), Pair("maxStalenessSeconds", Num(89)),
     Pair("maxStalenessSeconds", Num(90)), Pair("readPreferenceTags", Word("dc:ny")),
     Pair("readPreferenceTags", Word("")), Pair("readPreferenceTags", Word(Malformed)),
     Pair("proxyHost", Word("proxy")), Pair("proxyPort", Num(65535)), Pair("proxyPort", Num(65536)),
     Pair("proxyUsername", Word("u")), Pair("proxyUsername", Word("")), Pair("proxyPassword", Word("p")),
     Pair("adaptiveRetries", Word("true")), Pair(Malformed, Word("true"))}
    \cup Booleans("journal")
    \cup {Pair("readPreference", Word(m)) : m \in {"primary", "nearest", "secondary", "first"}}

Pairs == StoredPairs \cup TlsPairs \cup AuthPairs \cup OtherPairs

Plain(hosts, pairs) == Family({FALSE}, {None}, {None}, hosts, {None}, pairs)
Just(k, v) == {Pair(k, v)}

(* Every two options; options that depend on one another, three at a time. *)
OptionUris ==
    << Plain({Only("A")}, Pairs \X Pairs),
       Plain({<<Tcp("A", None), Tcp("b", 27018)>>, <<Unix>>}, {<<p>> : p \in Pairs}),
       Plain({Only("a")}, TlsPairs \X TlsPairs \X TlsPairs),
       Plain({Only("a")}, OtherPairs \X Just("readPreference", Word("nearest")) \X OtherPairs),
       Plain({Only("a")}, Just("proxyHost", Word("proxy")) \X OtherPairs \X OtherPairs),
       Plain({Only("a")}, Just("heartbeatFrequencyMS", Num(81000)) \X Just("readPreference", Word("nearest")) \X OtherPairs) >>

(* Users, hosts and databases.                                             *)
Hosts ==
    {Only("a"), <<Tcp("a", 0)>>, <<Tcp("a", 27017)>>, <<Unix>>, <<Tcp("a", None), Tcp("b", 65536)>>,
     <<Tcp("a", None), Tcp("b", None)>>, <<[form |-> Malformed, host |-> "[a", port |-> None]>>}

AuthorityUris ==
    << Family({FALSE}, {"", "ann"}, {None, "pw"}, {Only("a")}, {None, "", "app"}, AuthPairs \X AuthPairs),
       Family({FALSE}, {None}, {None}, {Only("a")}, {None, "", "app"}, AuthPairs \X AuthPairs),
       Family(BOOLEAN, {"", "ann", Unencoded}, {None, "", Unencoded}, Hosts, {None, "app", Unencoded}, {<<>>}),
       Family(BOOLEAN, {None}, {None}, Hosts, {None, "app", Unencoded}, {<<>>}) >>

SrvUris ==
    << Family({TRUE}, {"ann"}, {"pw"}, {Only("srv")}, {"app"}, {<<p>> : p \in Pairs}),
       Family({TRUE}, {None, "ann"}, {None}, {Only("srv")}, {None, "app"},
              {Pair("authMechanism", Word(Sha256)), Pair("authMechanism", Word(X509)), Pair("authSource", Word("other")),
               Pair("srvMaxHosts", Num(1)), Pair("srvMaxHosts", Num(0))}
              \X (Booleans("loadBalanced") \cup {Pair("replicaSet", Word("rs")), Pair("tls", Word("false"))})) >>

ManyUris == OptionUris \o AuthorityUris \o SrvUris
AUri == CHOOSE u \in ManyUris[1] : TRUE

Host(h, own) == [host |-> h, ownDomain |-> own, port |-> 27017]
TwoHosts == <<Host("A", TRUE), Host("b", TRUE)>>
Txt(pairs) == [found |-> TRUE, hosts |-> TwoHosts, txt |-> <<pairs>>]

ManyAnswers ==
    {NoAnswer, [NoAnswer EXCEPT !.found = TRUE],
     [found |-> TRUE, hosts |-> <<Host("a", TRUE), Host("b", FALSE)>>, txt |-> <<>>],
     [found |-> TRUE, hosts |-> TwoHosts, txt |-> <<>>],
     [found |-> TRUE, hosts |-> TwoHosts, txt |-> << <<Pair("replicaSet", Word("rs2"))>>, <<Pair("replicaSet", Word("rs2"))>> >>],
     Txt(<<Pair("authSource", Word("admin")), Pair("replicaSet", Word("rs2"))>>),
     Txt(<<Pair("loadBalanced", Word("true"))>>), Txt(<<Pair("loadBalanced", Word("maybe"))>>),
     Txt(<<Pair("retryReads", Word("true"))>>), Txt(<<Pair("authSource", Word("admin")), Pair(Malformed, Word(""))>>),
     [Txt(<<Pair("loadBalanced", Word("true"))>>) EXCEPT !.hosts = <<Host("a", TRUE)>>],
     [Txt(<<Pair("loadBalanced", Word("true")), Pair("replicaSet", Word("rs2"))>>) EXCEPT !.hosts = <<Host("a", TRUE)>>]}
=============================================================================
