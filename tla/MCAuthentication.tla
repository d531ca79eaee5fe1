-------------------------- MODULE MCAuthentication --------------------------
(* Instances of Authentication for TLC.                                    *)
EXTENDS Authentication, TLC

NoUsers == [id \in {} |-> [password |-> None, mechs |-> {}]]
User == [mechanism |-> None, username |-> "ann", password |-> "pw", source |-> None, properties |-> None,
         callback |-> FALSE]
Of(m) == [User EXCEPT !.mechanism = m]
NoPassword(m) == [Of(m) EXCEPT !.password = None]

Known == <<"admin", "ann">> :> [password |-> "pw", mechs |-> {Sha1, Sha256}]
         @@ <<"admin", "bob">> :> [password |-> "pw", mechs |-> {Sha1}]
         @@ <<"app", "ann">> :> [password |-> "pw", mechs |-> {Sha256}]
         @@ <<"app", "amy">> :> [password |-> "pw", mechs |-> {Sha256}]
         @@ <<"$external", "ann">> :> [password |-> "pw", mechs |-> {"PLAIN"}]
Wrong == <<"admin", "ann">> :> [password |-> "new", mechs |-> {Sha1, Sha256}]

Plain4 == [users |-> Known, speculative |-> TRUE, odd |-> FALSE, arbiter |-> FALSE, services |-> {None},
           compressors |-> {}]
Odd == [Plain4 EXCEPT !.odd = TRUE]
Old == [Plain4 EXCEPT !.speculative = FALSE]
NoScram == [Plain4 EXCEPT !.users = NoUsers]

Setup(creds, server, kind) ==
    [creds |-> [c \in Sockets |-> creds], server |-> server, kind |-> kind, refresh |-> FALSE, allowedHost |-> TRUE,
     loadBalanced |-> FALSE, compressors |-> <<>>, losses |-> FALSE]
Two(a, b, server) ==
    [Setup(a, server, "machine") EXCEPT !.creds = [c \in Sockets |-> IF c = CHOOSE d \in Sockets : TRUE THEN a ELSE b]]

\* Users of the same password, one of them with a name of its own.
ScramSetups ==
    {Two(a, b, s) : a \in {User, Of(Sha1), Of(Sha256), [User EXCEPT !.source = "app", !.mechanism = Sha256]},
                    b \in {[User EXCEPT !.username = "bob"], Of(Sha1), NoPassword(Sha256),
                           [User EXCEPT !.properties = {"SERVICE_NAME"}]},
                    s \in {Plain4, Odd, Old, [Plain4 EXCEPT !.users = Wrong]}}

OtherSetups ==
    {Two(NoPassword(X509), Of(X509), s) : s \in {[NoScram EXCEPT !.odd = TRUE], [Old EXCEPT !.users = NoUsers]}}
    \cup {Two(Of("PLAIN"), [Of("PLAIN") EXCEPT !.username = ""], [NoScram EXCEPT !.odd = TRUE])}
    \cup {Two(Of("MONGODB-AWS"), [Of("MONGODB-AWS") EXCEPT !.source = "app"], [NoScram EXCEPT !.odd = TRUE])}
    \cup {Two(Of("GSSAPI"), [Of("GSSAPI") EXCEPT !.properties = {"CANONICALIZE_HOST_NAME misspelt"}], NoScram)}
    \cup {Two(Of("MONGODB-CR"), None, NoScram), Two(User, None, [Plain4 EXCEPT !.arbiter = TRUE])}

OidcSetups ==
    {[Setup(NoPassword(Oidc), s, k) EXCEPT !.refresh = r, !.losses = l] :
        s \in {NoScram, [NoScram EXCEPT !.odd = TRUE]}, k \in {"machine", "human"}, r \in BOOLEAN, l \in BOOLEAN}
    \cup {Setup(NoPassword(Oidc), NoScram, "none"), Setup(Of(Oidc), NoScram, "machine"),
          [Setup(NoPassword(Oidc), NoScram, "human") EXCEPT !.allowedHost = FALSE]}

BalancedSetups ==
    {[Two(NoPassword(X509), None, [NoScram EXCEPT !.services = Services \cup {None},
                                                  !.compressors = {"zlib", "snappy"}])
        EXCEPT !.loadBalanced = TRUE, !.compressors = <<"zstd", "snappy", "zlib">>, !.losses = TRUE]}

ManySetups == ScramSetups \cup OtherSetups \cup OidcSetups \cup BalancedSetups

\* A user of a database other than admin, on a server without speculative
\* authentication, and the flows of OIDC.
RefutingSetups == {Setup([User EXCEPT !.username = "amy", !.source = "app"], Old, "machine")} \cup OidcSetups
=============================================================================
