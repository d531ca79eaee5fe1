----------------------------- MODULE Credentials -----------------------------
(***************************************************************************)
(* AuthMechanism and Credential (client/auth.rs): the parts that both a    *)
(* connection string and the authentication of a connection use.  A field  *)
(* that is not set is None; the mechanism properties are a set of names,   *)
(* an environment of OIDC among them with its value.                       *)
(***************************************************************************)
EXTENDS Common

Sha1 == "SCRAM-SHA-1"
Sha256 == "SCRAM-SHA-256"
X509 == "MONGODB-X509"
Oidc == "MONGODB-OIDC"

IsScram(m) == m \in {Sha1, Sha256}

\* The source of a mechanism, given the database of a connection string.
default_source(m, db) ==
    IF db # None /\ (IsScram(m) \/ m \in {"MONGODB-CR", "PLAIN"}) THEN db
    ELSE IF IsScram(m) \/ m = "MONGODB-CR" THEN "admin"
    ELSE "$external"

Properties(cr) == IF cr.properties = None THEN {} ELSE cr.properties

OidcEnvironments == {"azure", "gcp", "k8s", "elsewhere"}
OidcProperties == OidcEnvironments \cup {"TOKEN_RESOURCE", "ALLOWED_HOSTS"}

\* oidc::validate_credential.  callback: the application provided one.
OidcValid(cr) ==
    LET environment == Properties(cr) \cap OidcEnvironments IN
    /\ Properties(cr) \subseteq OidcProperties
    /\ environment # {} => ~cr.callback
    /\ ("TOKEN_RESOURCE" \in Properties(cr)) <=> (environment \cap {"azure", "gcp"} # {})
    /\ cr.source \in {None, "$external"}
    /\ cr.password = None
    /\ "elsewhere" \notin environment

\* validate_credential: what a mechanism requires of the credential.
ValidCredential(m, cr) ==
    CASE IsScram(m)          -> cr.username # None
      [] m = X509            -> cr.password = None /\ cr.source \in {None, "$external"}
      [] m = "GSSAPI"        -> cr.source \in {None, "$external"} /\ cr.username # None
      [] m = "PLAIN"         -> cr.username \notin {None, ""} /\ cr.password # None
      [] m = "MONGODB-AWS"   -> cr.username # None => cr.password # None
      [] m = Oidc            -> OidcValid(cr)
      [] OTHER               -> TRUE
=============================================================================
