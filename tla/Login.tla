------------------------------- MODULE Login -------------------------------
(***************************************************************************)
(* What somebody who logs in is answered, as operators: how the sources of *)
(* a kind of config become a payload (config/source.go, dynamo.go), the    *)
(* payload a store (auth/approle, auth/awssts, auth/store), the store and  *)
(* a request an identity, that a token, and the token an identity again    *)
(* (auth/m2m.go, auth/handler.go, entrypushd/grpc/auth_interceptor.go,     *)
(* transport/http/middleware).  Access has the state.                      *)
(*                                                                         *)
(* A payload is a sequence of parts, a part an entity or text that does    *)
(* not decode.  IDs, ARNs and hosts are sequences of words.  What is wrong *)
(* with a request is named in its field bad, what AWS says to it in reply. *)
(***************************************************************************)
EXTENDS Naturals, Sequences, FiniteSets, SequencesExt

CONSTANTS
    Documents,    \* bounded inputs: payloads
    Requests,     \* bounded inputs: requests to log in
    Trusted,      \* hosts of AWS STS; a first "*" is any label
    TTL           \* ticks a token lives: 15 minutes for agents, 24 h for users

Schemes == {"approle", "aws-sts"}
\* What may be wrong with a request to the push server.
Unreadable == {"metadata", "authorization", "header", "base64", "json", "fields"}
Replies == {"down", "5xx", "4xx", "cut", "notXml", "noArn", "ok"}

NoPart == [id |-> <<>>, status |-> "absent", secrets |-> {}, expired |-> {}, from |-> {}, roles |-> {}]

\* It has the fields of a part.
IsPart(p) ==
    p = [id |-> p.id, status |-> p.status, secrets |-> p.secrets,
         expired |-> p.expired, from |-> p.from, roles |-> p.roles]

Words(s) == {s[i] : i \in DOMAIN s}

ASSUME LoginAssumption ==
    /\ \A d \in Documents : d \in Seq(Words(d)) /\ \A i \in DOMAIN d :
          /\ IsPart(d[i]) /\ d[i].status \in {"", "active", "disabled", "corrupt"}
          /\ d[i].expired \subseteq d[i].secrets
    /\ \A r \in Requests : r.reply \in Replies /\ r.host \in Seq(STRING) /\
          r.bad \subseteq CASE r.scheme = "basic"   -> {"header"}
                           [] r.scheme = "aws-sts" -> Unreadable \cup {"wire", "method"}
                           [] OTHER                -> Unreadable
    /\ \A t \in Trusted : t \in Seq(STRING) /\ t # <<>> /\ (t[1] = "*" => Len(t) > 1)
    /\ TTL \in Nat \ {0}

\* The first of some errors that apply.
first(order, fails) ==
    LET i == SelectInSeq(order, LAMBDA e : fails[e]) IN IF i = 0 THEN "none" ELSE order[i]

-----------------------------------------------------------------------------
(* Payloads.                                                               *)
Found(d) == [status |-> "found", payload |-> d]
NotFound == [status |-> "next", payload |-> <<>>]
Failed == [status |-> "error", payload |-> <<>>]

\* A variable that is set has the whole payload.
EnvSource(env) == IF env.set THEN Found(env.payload) ELSE NotFound

\* Lists are joined from the data alone; objects name each by its item.
assemble(kind, recs) ==
    [i \in DOMAIN recs |->
        IF kind = "basic_auth" THEN [recs[i].data EXCEPT !.id = recs[i].id] ELSE recs[i].data]

DynamoSource(kind, recs, answers) == IF answers THEN Found(assemble(kind, recs)) ELSE Failed

\* The first source that has something, or fails.
Chain(sources) ==
    LET i == SelectInSeq(sources, LAMBDA s : s.status # "next") IN IF i = 0 THEN NotFound ELSE sources[i]

-----------------------------------------------------------------------------
(* Stores.                                                                 *)
Parsed(store) == [ok |-> TRUE, store |-> store]
NotParsed == [ok |-> FALSE, store |-> <<>>]

\* Of parts with one ID the last is kept.
byId(d) == [id \in {d[i].id : i \in DOMAIN d} |-> d[SelectLastInSeq(d, LAMBDA p : p.id = id)]]

decodes(d) == \A i \in DOMAIN d : d[i].status # "corrupt"

\* Mutant: the status is taken as it is.
ParseRolesBare(d) == IF decodes(d) /\ \A i \in DOMAIN d : d[i].id # <<>> THEN Parsed(byId(d)) ELSE NotParsed

\* No part may be without an ID; no status means active.
ParseRoles(d) ==
    IF decodes(d) /\ \A i \in DOMAIN d : d[i].id # <<>>
    THEN Parsed(byId([i \in DOMAIN d |-> [d[i] EXCEPT !.status = IF @ = "" THEN "active" ELSE @]]))
    ELSE NotParsed

\* The same of ARN mappings.
ParseARNs(d) == ParseRoles(d)

ParseUsers(d) == IF decodes(d) THEN Parsed(byId(d)) ELSE NotParsed

parse(kind, d) ==
    CASE kind = "app_role" -> ParseRoles(d)
      [] kind = "arn_map"  -> ParseARNs(d)
      [] OTHER             -> ParseUsers(d)

\* GetRole, LookupByARN, FindByUsername.
GetRole(store, id) == IF id \in DOMAIN store THEN store[id] ELSE NoPart

-----------------------------------------------------------------------------
(* Identities.                                                             *)
Identity(error, subject, roles) ==
    [error   |-> error,
     subject |-> IF error = "none" THEN subject ELSE <<>>,
     roles   |-> IF error = "none" THEN roles ELSE {}]

matchesAnyCIDR(ip, cidrs) == ip \in cidrs

\* Hashes that have expired do not count.
matchesAnyHash(p, secret) == secret \in p.secrets \ p.expired

roleChecks == <<"notJson", "ErrInvalidCredential", "ErrRoleNotFound", "ErrRoleDisabled",
                "ErrSourceNotAllowed", "ErrInvalidSecret">>

AuthenticateRole(store, r) ==
    LET role == GetRole(store, r.id)
        fails == [e \in Words(roleChecks) |->
            CASE e = "notJson"             -> "json" \in r.bad
              [] e = "ErrInvalidCredential" -> "fields" \in r.bad
              [] e = "ErrRoleNotFound"      -> role = NoPart
              [] e = "ErrRoleDisabled"      -> role.status # "active"
              [] e = "ErrSourceNotAllowed"  -> role.from # {} /\ ~matchesAnyCIDR(r.ip, role.from)
              [] e = "ErrInvalidSecret"     -> ~matchesAnyHash(role, r.secret)]
    IN  Identity(first(roleChecks, fails), r.id, role.roles)

IsTrustedHost(host) ==
    \E t \in Trusted :
        IF t[1] = "*" THEN IsSuffix(Tail(t), host) /\ Len(host) >= Len(t) ELSE t = host

stsChecks == <<"ErrDecodeFailed", "ErrUntrustedHost", "noRequest", "ErrSTSUnavailable", "ErrSTSRejected">>

\* What the agent has signed.
decodeWire(r) == "wire" \notin r.bad

\* It is XML and names an ARN.
parseSTSResponse(r) == r.reply \notin {"notXml", "noArn"}

\* The request is forwarded; a reply cut short counts as none, one that makes
\* no sense as a refusal.
callSTS(r) ==
    [e \in Words(stsChecks) |->
        CASE e = "ErrDecodeFailed"   -> ~decodeWire(r)
          [] e = "ErrUntrustedHost"  -> ~IsTrustedHost(r.host)
          [] e = "noRequest"        -> "method" \in r.bad
          [] e = "ErrSTSUnavailable" -> r.reply \in {"down", "5xx", "cut"}
          [] e = "ErrSTSRejected"    -> r.reply = "4xx" \/ ~parseSTSResponse(r)]

\* A session of a role is that role, and so is what follows its name.
NormalizeARN(arn) ==
    CASE Len(arn) > 3 /\ SubSeq(arn, 1, 2) = <<"sts", "assumed-role">> -> <<"iam", "role", arn[3]>>
      [] Len(arn) > 3 /\ SubSeq(arn, 1, 2) = <<"iam", "role">>         -> SubSeq(arn, 1, 3)
      [] OTHER                                                         -> arn

arnChecks == <<"notJson", "ErrInvalidCredential">> \o stsChecks \o <<"ErrUnknownARN", "ErrARNDisabled">>

AuthenticateARN(store, r) ==
    LET arn == NormalizeARN(r.id)
        mapping == GetRole(store, arn)
        fails == [e \in Words(arnChecks) |->
            CASE e = "notJson"             -> "json" \in r.bad
              [] e = "ErrInvalidCredential" -> "fields" \in r.bad
              [] e = "ErrUnknownARN"        -> mapping = NoPart
              [] e = "ErrARNDisabled"       -> mapping.status # "active"
              [] OTHER                      -> callSTS(r)[e]]
    IN  Identity(first(arnChecks, fails), arn, mapping.roles)

\* The status of a user is not looked at.
ValidatePassword(store, r) ==
    LET user == GetRole(store, r.id)
    IN  Identity(CASE user = NoPart                                 -> "ErrUserNotFound"
                   [] user # NoPart /\ r.secret \notin user.secrets -> "ErrInvalidPassword"
                   [] OTHER                                         -> "none", r.id, user.roles)

-----------------------------------------------------------------------------
(* Answers.                                                                *)
kindOf(scheme) ==
    CASE scheme = "approle" -> "app_role" [] scheme = "aws-sts" -> "arn_map" [] OTHER -> "basic_auth"

\* Mutant: a rule is missing.
authErrorRulesShort(e) ==
    CASE e \in {"ErrInvalidCredential", "ErrDecodeFailed"} -> "InvalidArgument"
      [] e \in {"ErrRoleNotFound", "ErrRoleDisabled", "ErrInvalidSecret", "ErrSourceNotAllowed",
                "ErrUntrustedHost", "ErrSTSRejected", "ErrUnknownARN"} -> "Unauthenticated"
      [] e = "ErrSTSUnavailable" -> "Unavailable"
      [] OTHER -> "Internal"

\* What is not in the table is Internal.
authErrorRules(e) ==
    CASE e \in {"ErrInvalidCredential", "ErrDecodeFailed"} -> "InvalidArgument"
      [] e \in {"ErrRoleNotFound", "ErrRoleDisabled", "ErrInvalidSecret", "ErrSourceNotAllowed",
                "ErrUntrustedHost", "ErrSTSRejected", "ErrUnknownARN", "ErrARNDisabled"} -> "Unauthenticated"
      [] e = "ErrSTSUnavailable" -> "Unavailable"
      [] OTHER -> "Internal"

Answer(code, identity) == [code |-> code, subject |-> identity.subject, roles |-> identity.roles]
NoIdentity == [subject |-> <<>>, roles |-> {}]

\* The interceptor of every call over gRPC.
authenticate(store, r) ==
    LET identity == IF r.scheme = "aws-sts" THEN AuthenticateARN(store, r) ELSE AuthenticateRole(store, r)
    IN  CASE r.bad \cap {"metadata", "authorization", "header", "base64"} # {} \/ r.scheme \notin Schemes
               -> Answer("Unauthenticated", NoIdentity)
          [] OTHER -> Answer(IF identity.error = "none" THEN "OK" ELSE authErrorRules(identity.error), identity)

\* Basic authentication of a request to nbox.
tryBasicAuth(store, r) ==
    LET user == ValidatePassword(store, r)
    IN  IF "header" \in r.bad THEN Answer("ErrInvalidAuthHeaderFormat", NoIdentity)
        ELSE Answer(IF user.error = "none" THEN "OK" ELSE "ErrInvalidCredentials", user)

LoginAnswer(store, r) ==
    IF r.scheme = "basic" THEN tryBasicAuth(store, r) ELSE authenticate(store, r)

-----------------------------------------------------------------------------
(* Tokens.                                                                 *)

NoToken == [subject |-> <<>>, roles |-> {}, from |-> 0, until |-> 0]

\* MintM2MJWT, and the same with another TTL in Token.
Mint(who, now) == [subject |-> who.subject, roles |-> who.roles, from |-> now, until |-> now + TTL]

\* POST /api/auth/token.
Token(store, r, now) ==
    LET user == ValidatePassword(store, r)
    IN  IF user.error = "none" THEN Mint(user, now) ELSE NoToken

\* A token counts from when it was minted, by the clock of whoever reads it.
tryJwt(token, now) ==
    CASE now >= token.until -> Answer("ErrTokenExpired", NoIdentity)
      [] now < token.from   -> Answer("ErrTokenInvalid", NoIdentity)
      [] OTHER              -> Answer("OK", token)

-----------------------------------------------------------------------------
(* What these compute, over the bounded inputs.                            *)
loaded(kind, env, recs) == parse(kind, Chain(<<EnvSource(env), DynamoSource(kind, recs, TRUE)>>).payload)
\* A payload is parsed alike wherever it is from: short ones do for the variable.
Envs == {[set |-> FALSE, payload |-> <<>>]} \cup [set : {TRUE}, payload : {d \in Documents : Len(d) < 2}]
Recs(d) == [i \in DOMAIN d |-> [id |-> d[i].id, data |-> d[i]]]

\* A part that makes the whole payload useless.
spoilt(kind, p) == p.status = "corrupt" \/ (kind # "basic_auth" /\ p.id = <<>>)

named(t, host) ==
    \/ t = host
    \/ t[1] = "*" /\ \E n \in 1..(Len(host) - 1) : Tail(t) = SubSeq(host, n + 1, Len(host))

\* A part that grants what is asked for.
grants(p, r) ==
    CASE kindOf(r.scheme) = "app_role" ->
           p.status # "disabled" /\ r.secret \in p.secrets \ p.expired /\ (p.from = {} \/ r.ip \in p.from)
      [] kindOf(r.scheme) = "arn_map" ->
           p.status # "disabled" /\ r.reply = "ok" /\ \E t \in Trusted : named(t, r.host)
      [] OTHER -> r.secret \in p.secrets

\* What a payload loads, and what a login is answered from it.
exact(env, items, r) ==
    LET kind == kindOf(r.scheme)
        d == IF env.set THEN env.payload ELSE items
        served == loaded(kind, env, Recs(items))
        id == IF kind = "arn_map" THEN NormalizeARN(r.id) ELSE r.id
    IN  /\ served.ok <=> \A i \in DOMAIN d : ~spoilt(kind, d[i])
        /\ served.ok =>
             (LoginAnswer(served.store, r).code = "OK" <=>
                /\ r.bad = {} /\ r.scheme \in Schemes \cup {"basic"}
                /\ \E i \in DOMAIN d : d[i].id = id /\ grants(d[i], r) /\ \A j \in (i + 1)..Len(d) : d[j].id # id)

(***************************************************************************)
(* A login succeeds if and only if the source that counts - the variable   *)
(* if it is set, and the table only if not - has an entity of that ID, the *)
(* last one with it is not disabled (but for users) and it lists the       *)
(* network and, unexpired, the secret, or AWS itself says so of the ARN;   *)
(* and a source is refused as a whole for any part that is spoilt          *)
(* (source.go:71, approle/store.go:36, authenticator.go:48).               *)
(***************************************************************************)
Exact == \A env \in Envs, items \in Documents, r \in Requests : exact(env, items, r)

(***************************************************************************)
(* "All credential failures collapse to Unauthenticated (don't leak which  *)
(* check failed)" (auth_interceptor.go:226): whoever sends a well-formed   *)
(* request and is refused, while AWS answers, hears the same whatever was  *)
(* wrong with it; and a refusal never says who anybody is.                 *)
(***************************************************************************)
Alike ==
    \A d \in Documents, r \in Requests :
        LET served == parse(kindOf(r.scheme), d)
            answer == LoginAnswer(served.store, r)
        IN  served.ok /\ r.bad = {} /\ r.reply \notin {"down", "5xx", "cut"} /\ answer.code # "OK" =>
                /\ answer.code = IF r.scheme = "basic" THEN "ErrInvalidCredentials" ELSE "Unauthenticated"
                /\ answer.subject = <<>> /\ answer.roles = {}

(***************************************************************************)
(* Whoever presents a token within its life is who logged in, with the     *)
(* roles of then, unless the clock of the reader is behind; after its life *)
(* nobody is (m2m.go:35, jwt.go:13).                                       *)
(***************************************************************************)
Carries ==
    \A d \in Documents, r \in Requests, now \in 1..2, later \in 0..(TTL + 3) :
        LET served == parse(kindOf(r.scheme), d)
            answer == LoginAnswer(served.store, r)
            token == IF r.scheme = "basic" THEN Token(served.store, r, now) ELSE Mint(answer, now)
        IN  served.ok /\ answer.code = "OK" =>
                IF later \in now..(now + TTL - 1)
                THEN tryJwt(token, later) = answer
                ELSE tryJwt(token, later).code # "OK"
=============================================================================
