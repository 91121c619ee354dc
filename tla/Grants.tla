------------------------------- MODULE Grants -------------------------------
(***************************************************************************)
(* oidc_core.cpp: the flows that end in one request - discovery, the       *)
(* client-credentials, password, refresh, exchange and on-behalf-of        *)
(* grants, revocation, and the platform identities (managed identity,      *)
(* GitHub Actions) - as a consumer calls them one after the other, with    *)
(* the endpoints of its last discovery.  The device and browser flows have *)
(* modules of their own; they check the endpoints as PostGrant does.       *)
(*                                                                         *)
(* A credential is known by its kind, an endpoint by the scheme of its     *)
(* URL ("none": not there), a token by what it is.                         *)
(***************************************************************************)
EXTENDS Naturals, FiniteSets

CONSTANTS
    Calls,              \* calls a consumer makes: records of GrantCall
    Urls                \* URLs a platform's environment names: records of Url

Schemes == {"none", "http", "https"}
Flows == {"client_credentials", "password", "refresh", "exchange", "on_behalf_of",
          "revoke", "managed_identity", "github"}
Exchanges == {"exchange", "on_behalf_of"}

\* A URL as LocalEndpoint sees it: `ok` is ParseUrl's verdict, "lookalike" a name such as 127.0.0.1.x
Url == [scheme : {"http", "https", "other"}, userinfo : BOOLEAN, ok : BOOLEAN,
        host : {"localhost", "::1", "127/8", "169.254/16", "lookalike", "remote"}]

\* `proofs`: what of ClientAuth is given; `subject`: the token presented (or the resource asked
\* for); `target`: an audience, scope or resource; `env`: the platform set its variables.
GrantCall == [flow : Flows, proofs : SUBSET {"key", "bad key", "assertion", "secret"},
         subject : BOOLEAN, target : BOOLEAN, with_refresh : BOOLEAN, env : BOOLEAN, url : Urls]

ASSUME GrantsAssumption == Urls \subseteq Url /\ Calls \subseteq GrantCall

VARIABLES
    issuer,             \* the scheme of the issuer's URL
    document,           \* history: the discovery document ep was made from
    ep,                 \* the Endpoints of the last discovery
    call,               \* the call being made
    at,                 \* "ready", "posted"
    sent,               \* the request under way, NoRequest when there is none
    granted             \* the TokenSet (or RevokeResult) of the last call
grantVars == <<issuer, document, ep, call, at, sent, granted>>

NoCall == [flow |-> "none", proofs |-> {}]
NoEndpoints == [error |-> TRUE, token |-> "none", revocation |-> "none", other |-> "none"]
NoRequest == [to |-> "nobody", proof |-> "none"]
Failed == [ok |-> FALSE, access |-> "none", refresh |-> "none"]
NoDocument == [answered |-> FALSE, issuer |-> "asked", token |-> "none", revocation |-> "none", other |-> "none"]

Documents == [answered : BOOLEAN, issuer : {"asked", "other"},
              token : Schemes, revocation : Schemes, other : Schemes]

InitGrants ==
    /\ issuer \in {"http", "https"}
    /\ document = NoDocument
    /\ ep = NoEndpoints
    /\ call = NoCall
    /\ at = "ready" /\ sent = NoRequest /\ granted = Failed

-----------------------------------------------------------------------------
\* Endpoints::Ok.
EndpointsOk == ~ep.error /\ ep.token # "none"

\* An https issuer whose document names a cleartext endpoint.
Mut_TokenOnly(doc) == issuer = "https" /\ doc.token = "http"
Downgrade(doc) == issuer = "https" /\ "http" \in {doc.token, doc.revocation, doc.other}

\* The document must speak for the issuer it was asked about; past that check the endpoints are
\* filled in whether or not they are then refused.
ParseDiscoveryDocument(doc) ==
    IF ~doc.answered \/ doc.issuer # "asked" THEN NoEndpoints
    ELSE [error |-> doc.token = "none" \/ Downgrade(doc),
          token |-> doc.token, revocation |-> doc.revocation, other |-> doc.other]

Discover(doc) ==
    /\ at = "ready"
    /\ document' = doc /\ ep' = ParseDiscoveryDocument(doc)
    /\ UNCHANGED <<issuer, call, at, sent, granted>>

-----------------------------------------------------------------------------
\* AddClientAuth: the first given of a key (which must sign), an assertion and a secret.
Proof(proofs) ==
    IF "key" \in proofs THEN "signed"
    ELSE IF "assertion" \in proofs THEN "assertion"
    ELSE IF "secret" \in proofs THEN "secret"
    ELSE "none"

AddClientAuth(proofs) == EndpointsOk /\ "bad key" \notin proofs

\* Loopback or link-local, by literal address; userinfo makes a host that is not what it reads as.
Mut_StartsLike(u) == u.ok /\ u.host # "remote"
LocalEndpoint(u) ==
    /\ u.scheme # "other" /\ ~u.userinfo /\ u.ok
    /\ u.host \in {"localhost", "::1", "127/8", "169.254/16"}

\* What each flow asks for before it sends anything.
Accepts(c) ==
    CASE c.flow \in Exchanges -> c.subject /\ c.target /\ AddClientAuth(c.proofs)
      [] c.flow = "client_credentials" -> AddClientAuth(c.proofs)
      [] c.flow \in {"password", "refresh"} -> EndpointsOk
      [] c.flow = "revoke" -> ep.revocation # "none"
      [] c.flow = "managed_identity" -> c.subject /\ LocalEndpoint(c.url)
      [] c.flow = "github" -> c.env /\ (c.url.scheme = "https" \/ LocalEndpoint(c.url))

\* The request: where it goes, and the strongest thing it carries.  Only a platform that set its
\* variables is sent its header; the instance metadata service gets none.
Request(c) ==
    CASE c.flow \in Exchanges \union {"client_credentials"} ->
            [to |-> ep.token, proof |-> Proof(c.proofs)]
      [] c.flow \in {"password", "refresh"} -> [to |-> ep.token, proof |-> c.flow]
      [] c.flow = "revoke" -> [to |-> ep.revocation, proof |-> "refresh"]
      [] OTHER -> [to |-> "platform", proof |-> IF c.env THEN "header" ELSE "none"]

\* A call that is refused returns at once; another posts its request.
StartCall(c) ==
    /\ at = "ready"
    /\ call' = c
    /\ IF Accepts(c) THEN at' = "posted" /\ sent' = Request(c) /\ UNCHANGED granted
       ELSE granted' = Failed /\ UNCHANGED <<at, sent>>
    /\ UNCHANGED <<issuer, document, ep>>

-----------------------------------------------------------------------------
\* What comes back: no HTTP answer, an error status, or a 2xx body with its fields - what the
\* access_token field holds, what refresh_token holds beside it, issued_token_type, token_type.
Bodies == [access : {"none", "access", "refresh", "id"}, refresh : {"none", "same", "other"},
           issued : {"none", "access", "refresh", "other"}, type : {"Bearer", "N_A"}]

\* External: an issuer that puts something other than an access token into access_token says so
\* (RFC 8693), and puts a refresh token there only alone; the types are an exchange's.
Honest(b) ==
    /\ b.access = "refresh" => b.refresh # "other" /\ (b.issued = "refresh" \/ b.type = "N_A")
    /\ b.access = "id" => b.issued = "other" \/ b.type = "N_A"
    /\ call.flow \notin Exchanges =>
          b.issued = "none" /\ b.type = "Bearer" /\ b.access \in {"none", "access"}

\* ParseTokenResponse, ParsePlatformToken: a grant is 2xx with an access_token, nothing inferred.
Parsed(b) == [ok |-> b.access # "none", access |-> b.access,
              refresh |-> IF call.flow \in {"managed_identity", "github"} THEN "none" ELSE b.refresh]

\* FinishExchange's two refusals: an answer typed as something else, and a refresh-typed answer
\* that is not an access token with a distinct refresh token beside it.
OtherType(b) ==
    \/ b.issued \notin {"none", "access"} \union (IF call.with_refresh THEN {"refresh"} ELSE {})
    \/ b.type = "N_A"

Mut_AnyShape(b) == FALSE
RefreshAlone(b) == b.issued = "refresh" /\ b.refresh \in {"none", "same"}

Mut_KeepsRefresh(out) == IF out.ok THEN out ELSE Failed
Cleared(out) ==
    IF ~out.ok THEN Failed
    ELSE IF call.with_refresh THEN out
    ELSE [out EXCEPT !.refresh = "none"]

FinishExchange(b) ==
    IF Parsed(b).ok /\ (OtherType(b) \/ RefreshAlone(b)) THEN Failed ELSE Cleared(Parsed(b))

Answered(r) == at' = "ready" /\ sent' = NoRequest /\ granted' = r /\ UNCHANGED <<issuer, document, ep, call>>

Unanswered == at = "posted" /\ Answered(Failed)

AnswerGrant(b) ==
    /\ at = "posted" /\ call.flow # "revoke" /\ Honest(b)
    /\ Answered(IF call.flow \in Exchanges THEN FinishExchange(b) ELSE Parsed(b))

\* Revoke is ok when the issuer answered 2xx.
Revoked ==
    /\ at = "posted" /\ call.flow = "revoke"
    /\ Answered([ok |-> TRUE, access |-> "none", refresh |-> "none"])

NextGrants ==
    \/ \E doc \in Documents : Discover(doc)
    \/ \E c \in Calls : StartCall(c)
    \/ \E b \in Bodies : AnswerGrant(b)
    \/ Unanswered \/ Revoked


-----------------------------------------------------------------------------
(* Properties *)

\* "The document must speak for the issuer it was asked about" and "an environment variable must not
\* redirect a request that carries an identity header" (oidc_core.cpp): whatever the documents and
\* the environment say, in any sequence of discoveries and calls, a request of any flow goes to the
\* endpoint its flow takes from a document that speaks for the issuer, or to a platform endpoint
\* that is local (GitHub's: or https).  A grant goes nowhere once the document names a cleartext
\* endpoint under an https issuer, and carries the first proof given, never a weaker one in its
\* place.  How Revoke's request travels is NeverWeakerThanDiscovery's to say.
CredentialsGoWhereAllowed ==
    sent # NoRequest =>
        /\ sent.to # "platform" =>
              /\ document.answered /\ document.issuer = "asked"
              /\ sent.to \in {"http", "https"}
              /\ sent.to = IF call.flow = "revoke" THEN document.revocation ELSE document.token
        /\ sent.to # "platform" /\ call.flow # "revoke" /\ issuer = "https" =>
              "http" \notin {document.token, document.revocation, document.other}
        /\ sent.to = "platform" =>
              \/ call.url.host \in {"localhost", "::1", "127/8", "169.254/16"} /\ ~call.url.userinfo
              \/ call.flow = "github" /\ call.url.scheme = "https"
        /\ call.proofs \intersect {"key", "bad key"} # {} /\ sent.to # "platform" =>
              sent.proof \notin {"assertion", "secret", "none"}

\* "The credentials the flows POST must not travel weaker than the discovery did"
\* (oidc_core.cpp:767), "under an https issuer, a cleartext one is refused, as the other endpoints
\* are" (specs/011-oidc-revocation-scope): no request of any flow goes over http to an issuer that
\* was discovered over https.  Revoke breaks it: it asks for a revocation_endpoint and not for
\* Endpoints::Ok, and a refused document leaves its endpoints filled in.
NeverWeakerThanDiscovery ==
    sent.to = "http" => issuer = "http"

\* "A refresh token is never taken for an access token", whatever shape the answer has, and "a
\* refresh token is dropped unless asked for" (oidc_core.hpp, FinishExchange): a flow that
\* succeeds hands out an access token, and an exchange a refresh token only to a caller that
\* asked for one, and only beside it.
GrantedAsAsked ==
    /\ granted.ok /\ call.flow # "revoke" /\ at = "ready" => granted.access = "access"
    /\ granted.refresh # "none" /\ call.flow \in Exchanges /\ at = "ready" =>
          call.with_refresh /\ granted.access = "access"

=============================================================================
