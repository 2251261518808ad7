---------------------------- MODULE Login_proofs ---------------------------
(* Proofs about what somebody who logs in is answered, for every payload,  *)
(* every request and every set of trusted hosts.                           *)
EXTENDS Login, SequenceTheorems, WellFoundedInduction, TLAPS

-----------------------------------------------------------------------------
(* The first and the last element of a sequence that pass a test.          *)

LEMMA LeastOf ==
    ASSUME NEW S \in SUBSET Nat, S # {}
    PROVE  \E x \in S : \A y \in S : x <= y
  <1> DEFINE R == OpToRel(<, Nat)
  <1>1. IsWellFoundedOn(R, Nat)
    BY NatLessThanWellFounded
  <1>2. \A x, y \in Nat : <<x, y>> \in R <=> x < y
    BY DEF OpToRel
  <1> HIDE DEF R
  <1>3. PICK x \in S : \A y \in S : ~(<<y, x>> \in R)
    BY <1>1, WFMin
  <1>4. \A y \in S : ~(y < x)
    BY <1>2, <1>3
  <1>5. \A y \in S : x <= y
    BY <1>4
  <1>6. QED BY <1>5

LEMMA GreatestOf ==
    ASSUME NEW n \in Nat, NEW S \in SUBSET (1..n), S # {}
    PROVE  \E x \in S : \A y \in S : x >= y
  <1> DEFINE T == {n - x : x \in S}
  <1>1. T \in SUBSET Nat /\ T # {}
    <2>1. \A x \in S : x \in 1..n /\ n - x \in Nat
      OBVIOUS
    <2>2. QED BY <2>1
  <1> HIDE DEF T
  <1>2. PICK z \in T : \A y \in T : z <= y
    BY <1>1, LeastOf
  <1>3. PICK x \in S : z = n - x
    BY <1>2 DEF T
  <1>4. ASSUME NEW y \in S PROVE x >= y
    <2>1. n - y \in T /\ x \in 1..n /\ y \in 1..n
      BY DEF T
    <2>2. n - x <= n - y
      BY <1>2, <1>3, <2>1
    <2>3. QED BY <2>1, <2>2
  <1>5. QED BY <1>4

(* The first check that fails, if one does.                                *)
LEMMA FirstFails ==
    ASSUME NEW X, NEW order \in Seq(X), NEW fails
    PROVE  \/ /\ first(order, fails) = "none"
              /\ \A i \in 1..Len(order) : ~fails[order[i]]
           \/ \E i \in 1..Len(order) : first(order, fails) = order[i] /\ fails[order[i]]
  <1> DEFINE I == {i \in 1..Len(order) : fails[order[i]]}
             x == IF I # {} THEN CHOOSE x \in I : \A y \in I : x <= y ELSE 0
  <1>1. first(order, fails) = IF x = 0 THEN "none" ELSE order[x]
    BY DEF first, SelectInSeq, Min
  <1>2. CASE I = {}
    <2>1. x = 0
      BY <1>2
    <2>2. QED BY <1>1, <1>2, <2>1
  <1>3. CASE I # {}
    <2>1. I \in SUBSET Nat
      OBVIOUS
    <2> HIDE DEF I
    <2>2. \E z \in I : \A y \in I : z <= y
      BY <1>3, <2>1, LeastOf
    <2>3. x \in I
      BY <1>3, <2>2
    <2> HIDE DEF x
    <2>4. x \in 1..Len(order) /\ fails[order[x]]
      BY <2>3 DEF I
    <2>5. first(order, fails) = order[x]
      BY <1>1, <2>4
    <2>6. QED BY <2>4, <2>5
  <1>4. QED BY <1>2, <1>3

(* Of the parts with an ID, a store has the last.                          *)
LEMMA LastOf ==
    ASSUME NEW d, d \in Seq(Words(d)), NEW id,
           NEW i, i = SelectLastInSeq(d, LAMBDA p : p.id = id), \E j \in DOMAIN d : d[j].id = id
    PROVE  /\ i \in DOMAIN d /\ d[i].id = id
           /\ \A j \in (i + 1)..Len(d) : d[j].id # id
  <1> DEFINE I == {j \in 1..Len(d) : d[j].id = id}
  <1>0. Len(d) \in Nat /\ DOMAIN d = 1..Len(d)
    OBVIOUS
  <1>1. i = IF I # {} THEN CHOOSE x \in I : \A y \in I : x >= y ELSE 0
    BY DEF SelectLastInSeq, Max
  <1>2. I # {} /\ I \in SUBSET (1..Len(d))
    BY <1>0
  <1>3. \E x \in I : \A y \in I : x >= y
    <2> HIDE DEF I
    <2>1. QED BY <1>0, <1>2, GreatestOf
  <1>4. i \in I /\ \A y \in I : i >= y
    <2> HIDE DEF I
    <2>1. QED BY <1>1, <1>2, <1>3
  <1>5. ASSUME NEW j \in (i + 1)..Len(d), d[j].id = id PROVE FALSE
    <2>1. i \in 1..Len(d)
      BY <1>4
    <2>2. j \in 1..Len(d) /\ j > i
      BY <1>0, <2>1
    <2>3. j \in I
      BY <1>5, <2>2
    <2>4. i >= j
      BY <1>4, <2>3
    <2>5. QED BY <1>0, <2>1, <2>2, <2>4
  <1>6. QED BY <1>0, <1>4, <1>5

-----------------------------------------------------------------------------
(* Identities.                                                             *)

\* What is wrong with a login, as AuthenticateRole and AuthenticateARN see it.
RoleFails(store, r) ==
    LET role == GetRole(store, r.id)
    IN  [e \in Words(roleChecks) |->
            CASE e = "notJson"             -> "json" \in r.bad
              [] e = "ErrInvalidCredential" -> "fields" \in r.bad
              [] e = "ErrRoleNotFound"      -> role = NoPart
              [] e = "ErrRoleDisabled"      -> role.status # "active"
              [] e = "ErrSourceNotAllowed"  -> role.from # {} /\ ~matchesAnyCIDR(r.ip, role.from)
              [] e = "ErrInvalidSecret"     -> ~matchesAnyHash(role, r.secret)]

ARNFails(store, r) ==
    LET mapping == GetRole(store, NormalizeARN(r.id))
    IN  [e \in Words(arnChecks) |->
            CASE e = "notJson"             -> "json" \in r.bad
              [] e = "ErrInvalidCredential" -> "fields" \in r.bad
              [] e = "ErrUnknownARN"        -> mapping = NoPart
              [] e = "ErrARNDisabled"       -> mapping.status # "active"
              [] OTHER                      -> callSTS(r)[e]]

LEMMA RoleWords ==
    /\ roleChecks \in Seq(Words(roleChecks))
    /\ Words(roleChecks) = {"notJson", "ErrInvalidCredential", "ErrRoleNotFound", "ErrRoleDisabled",
                            "ErrSourceNotAllowed", "ErrInvalidSecret"}
  <1> DEFINE all == {"notJson", "ErrInvalidCredential", "ErrRoleNotFound", "ErrRoleDisabled",
                     "ErrSourceNotAllowed", "ErrInvalidSecret"}
  <1>1. Words(roleChecks) = all
    BY DEF Words, roleChecks
  <1>2. roleChecks \in Seq(all)
    BY DEF roleChecks
  <1>3. QED BY <1>1, <1>2

LEMMA STSWords ==
    /\ stsChecks \in Seq(Words(stsChecks))
    /\ Words(stsChecks) = {"ErrDecodeFailed", "ErrUntrustedHost", "noRequest", "ErrSTSUnavailable", "ErrSTSRejected"}
  <1> DEFINE all == {"ErrDecodeFailed", "ErrUntrustedHost", "noRequest", "ErrSTSUnavailable", "ErrSTSRejected"}
  <1>1. Words(stsChecks) = all
    BY DEF Words, stsChecks
  <1>2. stsChecks \in Seq(all)
    BY DEF stsChecks
  <1>3. QED BY <1>1, <1>2

(* The words of two sequences put together.                                *)
LEMMA WordsJoined ==
    ASSUME NEW X, NEW s \in Seq(X), NEW t \in Seq(X)
    PROVE  s \o t \in Seq(X) /\ Words(s \o t) = Words(s) \cup Words(t)
  <1>1. /\ s \o t \in Seq(X) /\ Len(s \o t) = Len(s) + Len(t)
        /\ \A i \in 1..(Len(s) + Len(t)) : (s \o t)[i] = IF i <= Len(s) THEN s[i] ELSE t[i - Len(s)]
    OBVIOUS
  <1>2. ASSUME NEW w \in Words(s \o t) PROVE w \in Words(s) \cup Words(t)
    <2>1. PICK i \in 1..(Len(s) + Len(t)) : w = (s \o t)[i]
      BY <1>1 DEF Words
    <2>2. CASE i <= Len(s)
      BY <1>1, <2>1, <2>2 DEF Words
    <2>3. CASE i > Len(s)
      <3>1. i - Len(s) \in 1..Len(t) /\ w = t[i - Len(s)]
        BY <1>1, <2>1, <2>3
      <3>2. QED BY <3>1 DEF Words
    <2>4. QED BY <2>2, <2>3
  <1>3. ASSUME NEW w \in Words(s) PROVE w \in Words(s \o t)
    <2>1. PICK i \in 1..Len(s) : w = s[i]
      BY DEF Words
    <2>2. i \in 1..(Len(s) + Len(t)) /\ w = (s \o t)[i]
      BY <1>1, <2>1
    <2>3. QED BY <1>1, <2>2 DEF Words
  <1>4. ASSUME NEW w \in Words(t) PROVE w \in Words(s \o t)
    <2>1. PICK i \in 1..Len(t) : w = t[i]
      BY DEF Words
    <2>2. Len(s) + i \in 1..(Len(s) + Len(t)) /\ w = (s \o t)[Len(s) + i]
      BY <1>1, <2>1
    <2>3. QED BY <1>1, <2>2 DEF Words
  <1>5. QED BY <1>1, <1>2, <1>3, <1>4

LEMMA ARNWords ==
    LET all == {"notJson", "ErrInvalidCredential", "ErrUnknownARN", "ErrARNDisabled"} \cup Words(stsChecks)
    IN  arnChecks \in Seq(all) /\ Words(arnChecks) = all
  <1> DEFINE a == <<"notJson", "ErrInvalidCredential">>
             b == <<"ErrUnknownARN", "ErrARNDisabled">>
             all == {"notJson", "ErrInvalidCredential", "ErrUnknownARN", "ErrARNDisabled"} \cup Words(stsChecks)
  <1>1. a \in Seq(all) /\ b \in Seq(all) /\ stsChecks \in Seq(all)
    <2>1. a \in Seq(all) /\ b \in Seq(all)
      OBVIOUS
    <2>2. stsChecks \in Seq(Words(stsChecks)) /\ Words(stsChecks) \subseteq all
      BY STSWords
    <2> HIDE DEF all
    <2>3. stsChecks \in Seq(all)
      BY <2>2
    <2>4. QED BY <2>1, <2>3
  <1>2. Words(a) = {"notJson", "ErrInvalidCredential"} /\ Words(b) = {"ErrUnknownARN", "ErrARNDisabled"}
    <2>1. /\ DOMAIN a = {1, 2} /\ a[1] = "notJson" /\ a[2] = "ErrInvalidCredential"
          /\ DOMAIN b = {1, 2} /\ b[1] = "ErrUnknownARN" /\ b[2] = "ErrARNDisabled"
      OBVIOUS
    <2> HIDE DEF a, b
    <2>2. QED BY <2>1 DEF Words
  <1>3. arnChecks = (a \o stsChecks) \o b
    BY DEF arnChecks
  <1>4. QED
    <2> HIDE DEF a, b, all
    <2>1. (a \o stsChecks) \in Seq(all) /\ Words(a \o stsChecks) = Words(a) \cup Words(stsChecks)
      BY <1>1, WordsJoined
    <2> DEFINE ab == a \o stsChecks
    <2>a. ab \in Seq(all) /\ arnChecks = ab \o b
      BY <1>3, <2>1
    <2> HIDE DEF ab
    <2>b. ab \o b \in Seq(all) /\ Words(ab \o b) = Words(ab) \cup Words(b)
      BY <1>1, <2>a, WordsJoined
    <2>2. arnChecks \in Seq(all) /\ Words(arnChecks) = Words(ab) \cup Words(b)
      BY <2>a, <2>b
    <2>3. Words(arnChecks) = all
      BY <1>2, <2>1, <2>2 DEF all, ab
    <2>4. QED BY <2>2, <2>3 DEF all

LEMMA RoleFailures ==
    ASSUME NEW store, NEW r
    PROVE  LET fails == RoleFails(store, r)
               role == GetRole(store, r.id)
           IN  /\ fails["notJson"] <=> "json" \in r.bad
               /\ fails["ErrInvalidCredential"] <=> "fields" \in r.bad
               /\ fails["ErrRoleNotFound"] <=> role = NoPart
               /\ fails["ErrRoleDisabled"] <=> role.status # "active"
               /\ fails["ErrSourceNotAllowed"] <=> role.from # {} /\ r.ip \notin role.from
               /\ fails["ErrInvalidSecret"] <=> r.secret \notin role.secrets \ role.expired
  BY RoleWords DEF RoleFails, matchesAnyCIDR, matchesAnyHash

LEMMA ARNFailures ==
    ASSUME NEW store, NEW r
    PROVE  LET fails == ARNFails(store, r)
               mapping == GetRole(store, NormalizeARN(r.id))
           IN  /\ fails["notJson"] <=> "json" \in r.bad
               /\ fails["ErrInvalidCredential"] <=> "fields" \in r.bad
               /\ fails["ErrUnknownARN"] <=> mapping = NoPart
               /\ fails["ErrARNDisabled"] <=> mapping.status # "active"
               /\ fails["ErrDecodeFailed"] <=> "wire" \in r.bad
               /\ fails["ErrUntrustedHost"] <=> ~IsTrustedHost(r.host)
               /\ fails["noRequest"] <=> "method" \in r.bad
               /\ fails["ErrSTSUnavailable"] <=> r.reply \in {"down", "5xx", "cut"}
               /\ fails["ErrSTSRejected"] <=> r.reply \in {"4xx", "notXml", "noArn"}
  BY ARNWords, STSWords DEF ARNFails, callSTS, decodeWire, parseSTSResponse

\* What AuthenticateRole and AuthenticateARN want of a request and a store.
roleGranted(store, r) ==
    LET role == GetRole(store, r.id)
    IN  /\ r.bad \cap {"json", "fields"} = {}
        /\ role # NoPart /\ role.status = "active" /\ (role.from = {} \/ r.ip \in role.from)
        /\ r.secret \in role.secrets \ role.expired

arnGranted(store, r) ==
    LET mapping == GetRole(store, NormalizeARN(r.id))
    IN  /\ r.bad \cap {"json", "fields", "wire", "method"} = {}
        /\ IsTrustedHost(r.host) /\ r.reply \notin Replies \ {"ok"}
        /\ mapping # NoPart /\ mapping.status = "active"

\* An identity that has an error is nobody.
Anonymous(identity) == identity.subject = <<>> /\ identity.roles = {}

LEMMA RoleIdentity ==
    ASSUME NEW store, NEW r
    PROVE  LET identity == AuthenticateRole(store, r)
           IN  /\ identity.error = "none" <=> roleGranted(store, r)
               /\ \/ identity.error = "none"
                  \/ /\ Anonymous(identity) /\ identity.error \in Words(roleChecks)
                     /\ RoleFails(store, r)[identity.error]
  <1> DEFINE role == GetRole(store, r.id)
             fails == RoleFails(store, r)
             e == first(roleChecks, fails)
  <1>1. AuthenticateRole(store, r) = Identity(e, r.id, role.roles)
    BY DEF AuthenticateRole, RoleFails
  <1>2. AuthenticateRole(store, r).error = e /\ (e # "none" => Anonymous(AuthenticateRole(store, r)))
    BY <1>1 DEF Identity, Anonymous
  <1>3. \/ e = "none" /\ \A i \in 1..Len(roleChecks) : ~fails[roleChecks[i]]
        \/ \E i \in 1..Len(roleChecks) : e = roleChecks[i] /\ fails[roleChecks[i]]
    <2> HIDE DEF fails
    <2>1. QED BY RoleWords, FirstFails
  <1>4. \/ e = "none" /\ \A w \in Words(roleChecks) : ~fails[w]
        \/ e # "none" /\ e \in Words(roleChecks) /\ fails[e]
    <2>1. DOMAIN roleChecks = 1..Len(roleChecks)
      BY RoleWords
    <2> HIDE DEF e, fails
    <2>2. QED BY <1>3, <2>1, RoleWords DEF Words
  <1>5. roleGranted(store, r) <=> \A w \in Words(roleChecks) : ~fails[w]
    BY RoleWords, RoleFailures DEF roleGranted
  <1> HIDE DEF e, fails
  <1>6. QED BY <1>2, <1>4, <1>5 DEF fails

LEMMA ARNIdentity ==
    ASSUME NEW store, NEW r
    PROVE  LET identity == AuthenticateARN(store, r)
           IN  /\ identity.error = "none" <=> arnGranted(store, r)
               /\ \/ identity.error = "none"
                  \/ /\ Anonymous(identity) /\ identity.error \in Words(arnChecks)
                     /\ ARNFails(store, r)[identity.error]
  <1> DEFINE arn == NormalizeARN(r.id)
             mapping == GetRole(store, arn)
             fails == ARNFails(store, r)
             e == first(arnChecks, fails)
             all == {"notJson", "ErrInvalidCredential", "ErrUnknownARN", "ErrARNDisabled"} \cup Words(stsChecks)
  <1>1. AuthenticateARN(store, r) = Identity(e, arn, mapping.roles)
    BY DEF AuthenticateARN, ARNFails
  <1>2. AuthenticateARN(store, r).error = e /\ (e # "none" => Anonymous(AuthenticateARN(store, r)))
    BY <1>1 DEF Identity, Anonymous
  <1>3. arnChecks \in Seq(all) /\ Words(arnChecks) = all
    BY ARNWords
  <1>4. \/ e = "none" /\ \A i \in 1..Len(arnChecks) : ~fails[arnChecks[i]]
        \/ \E i \in 1..Len(arnChecks) : e = arnChecks[i] /\ fails[arnChecks[i]]
    <2> HIDE DEF fails, all
    <2>1. QED BY <1>3, FirstFails
  <1>5. "none" \notin all
    BY STSWords
  <1>6. \/ e = "none" /\ \A w \in Words(arnChecks) : ~fails[w]
        \/ e # "none" /\ e \in Words(arnChecks) /\ fails[e]
    <2> HIDE DEF e, fails, all
    <2>1. DOMAIN arnChecks = 1..Len(arnChecks)
      BY <1>3
    <2>2. QED BY <1>3, <1>4, <1>5, <2>1 DEF Words
  <1>7. arnGranted(store, r) <=> \A w \in all : ~fails[w]
    BY STSWords, ARNFailures DEF arnGranted, Replies
  <1> HIDE DEF e, fails, all
  <1>8. QED BY <1>2, <1>3, <1>6, <1>7 DEF fails

-----------------------------------------------------------------------------
(* Answers.                                                                *)

\* What is wrong with a request before its credential is looked at.
Garbled == {"metadata", "authorization", "header", "base64"}

\* The identity that an answer over gRPC is made of.
identityOf(store, r) == IF r.scheme = "aws-sts" THEN AuthenticateARN(store, r) ELSE AuthenticateRole(store, r)

LEMMA RulesRefuse == \A e : authErrorRules(e) \in {"InvalidArgument", "Unauthenticated", "Unavailable", "Internal"}
  BY DEF authErrorRules

LEMMA GrpcAnswer ==
    ASSUME NEW store, NEW r, r.scheme # "basic"
    PROVE  LET answer == LoginAnswer(store, r)
               identity == identityOf(store, r)
           IN  /\ answer.code = "OK" <=>
                     r.scheme \in Schemes /\ r.bad \cap Garbled = {} /\ identity.error = "none"
               /\ answer = IF r.bad \cap Garbled # {} \/ r.scheme \notin Schemes
                           THEN Answer("Unauthenticated", NoIdentity)
                           ELSE Answer(IF identity.error = "none" THEN "OK" ELSE authErrorRules(identity.error), identity)
  <1> DEFINE identity == identityOf(store, r)
  <1>1. LoginAnswer(store, r) = authenticate(store, r)
    BY DEF LoginAnswer
  <1>2. authenticate(store, r) =
            CASE r.bad \cap Garbled # {} \/ r.scheme \notin Schemes -> Answer("Unauthenticated", NoIdentity)
              [] OTHER -> Answer(IF identity.error = "none" THEN "OK" ELSE authErrorRules(identity.error), identity)
    BY DEF authenticate, Garbled, identityOf
  <1> HIDE DEF identity
  <1>3. \A c, i : Answer(c, i).code = c
    BY DEF Answer
  <1>4. LoginAnswer(store, r) = IF r.bad \cap Garbled # {} \/ r.scheme \notin Schemes
                                THEN Answer("Unauthenticated", NoIdentity)
                                ELSE Answer(IF identity.error = "none" THEN "OK" ELSE authErrorRules(identity.error), identity)
    BY <1>1, <1>2
  <1>5. QED BY <1>3, <1>4, RulesRefuse DEF identity

LEMMA BasicAnswer ==
    ASSUME NEW store, NEW r, r.scheme = "basic"
    PROVE  LET answer == LoginAnswer(store, r)
               user == ValidatePassword(store, r)
               part == GetRole(store, r.id)
           IN  /\ user.error = "none" <=> part # NoPart /\ r.secret \in part.secrets
               /\ user.error # "none" => Anonymous(user)
               /\ answer.code = "OK" <=> "header" \notin r.bad /\ user.error = "none"
               /\ answer = IF "header" \in r.bad THEN Answer("ErrInvalidAuthHeaderFormat", NoIdentity)
                           ELSE Answer(IF user.error = "none" THEN "OK" ELSE "ErrInvalidCredentials", user)
  <1> DEFINE user == ValidatePassword(store, r)
             part == GetRole(store, r.id)
             e == CASE part = NoPart                                 -> "ErrUserNotFound"
                    [] part # NoPart /\ r.secret \notin part.secrets -> "ErrInvalidPassword"
                    [] OTHER                                         -> "none"
  <1>1. user = Identity(e, r.id, part.roles)
    BY DEF ValidatePassword
  <1>2. e = "none" <=> part # NoPart /\ r.secret \in part.secrets
    <2> HIDE DEF part
    <2>1. QED OBVIOUS
  <1>3. user.error = e /\ (e # "none" => Anonymous(user))
    <2> HIDE DEF e, user
    <2>1. QED BY <1>1 DEF Identity, Anonymous
  <1>4. LoginAnswer(store, r) = IF "header" \in r.bad THEN Answer("ErrInvalidAuthHeaderFormat", NoIdentity)
                                ELSE Answer(IF user.error = "none" THEN "OK" ELSE "ErrInvalidCredentials", user)
    BY DEF LoginAnswer, tryBasicAuth
  <1> HIDE DEF user, part, e
  <1>5. \A c, i : Answer(c, i).code = c
    BY DEF Answer
  <1>6. QED BY <1>2, <1>3, <1>4, <1>5 DEF user, part

-----------------------------------------------------------------------------
(* Stores.                                                                 *)

\* What LoginAssumption says of a payload.
IsDocument(d) ==
    /\ d \in Seq(Words(d))
    /\ \A i \in DOMAIN d : IsPart(d[i]) /\ d[i].status \in {"", "active", "disabled", "corrupt"}

\* The last part with an ID.
IsLast(d, id, i) == i \in DOMAIN d /\ d[i].id = id /\ \A j \in (i + 1)..Len(d) : d[j].id # id

LEMMA OneLast ==
    ASSUME NEW d, IsDocument(d), NEW id, NEW i, NEW j, IsLast(d, id, i), IsLast(d, id, j)
    PROVE  i = j
  <1>0. d \in Seq(Words(d)) /\ i \in DOMAIN d /\ j \in DOMAIN d
    BY DEF IsDocument, IsLast
  <1>1. Len(d) \in Nat /\ i \in 1..Len(d) /\ j \in 1..Len(d)
    BY <1>0
  <1>2. ~(i < j)
    BY <1>1 DEF IsLast
  <1>3. ~(j < i)
    BY <1>1 DEF IsLast
  <1>4. QED BY <1>1, <1>2, <1>3

\* The status a store has of a part.
statusOf(kind, p) == IF kind \in {"app_role", "arn_map"} /\ p.status = "" THEN "active" ELSE p.status

\* A store has a part, or none.
Stores(d, kind, id, entry) ==
    \/ entry = NoPart /\ \A i \in DOMAIN d : d[i].id # id
    \/ /\ entry # NoPart
       /\ \E i \in DOMAIN d :
             /\ IsLast(d, id, i)
             /\ entry = [d[i] EXCEPT !.status = statusOf(kind, d[i])]

LEMMA ByIdHas ==
    ASSUME NEW d, d \in Seq(Words(d)), NEW id
    PROVE  \/ id \notin DOMAIN byId(d) /\ \A i \in DOMAIN d : d[i].id # id
           \/ id \in DOMAIN byId(d) /\ \E i \in DOMAIN d : IsLast(d, id, i) /\ byId(d)[id] = d[i]
  <1>1. DOMAIN byId(d) = {d[i].id : i \in DOMAIN d}
    BY DEF byId
  <1>2. CASE id \notin DOMAIN byId(d)
    BY <1>1, <1>2
  <1>3. CASE id \in DOMAIN byId(d)
    <2>1. \E j \in DOMAIN d : d[j].id = id
      BY <1>1, <1>3
    <2> DEFINE i == SelectLastInSeq(d, LAMBDA p : p.id = id)
    <2>2. byId(d)[id] = d[i]
      BY <1>1, <1>3 DEF byId
    <2>3. /\ i \in DOMAIN d /\ d[i].id = id
          /\ \A j \in (i + 1)..Len(d) : d[j].id # id
      BY <2>1, LastOf
    <2> HIDE DEF i
    <2>4. QED BY <1>3, <2>2, <2>3 DEF IsLast
  <1>4. QED BY <1>2, <1>3

(* What is parsed, and what its store has.                                 *)
LEMMA ParsesTo ==
    ASSUME NEW d, IsDocument(d), NEW kind
    PROVE  LET served == parse(kind, d)
           IN  /\ served.ok <=> \A i \in DOMAIN d : /\ d[i].status # "corrupt"
                                                    /\ kind \in {"app_role", "arn_map"} => d[i].id # <<>>
               /\ served.ok => \A id : Stores(d, kind, id, GetRole(served.store, id))
  <1>0. DOMAIN d = 1..Len(d) /\ Len(d) \in Nat /\ d \in Seq(Words(d))
    <2>1. d \in Seq(Words(d))
      BY DEF IsDocument
    <2>2. QED BY <2>1
  <1>c. ASSUME NEW C \in BOOLEAN, NEW store, parse(kind, d) = IF C THEN Parsed(store) ELSE NotParsed
        PROVE  (parse(kind, d).ok <=> C) /\ (C => parse(kind, d).store = store)
    <2>1. Parsed(store).ok = TRUE /\ Parsed(store).store = store /\ NotParsed.ok = FALSE
      BY DEF Parsed, NotParsed
    <2>2. QED BY <1>c, <2>1
  <1>a. \A p, s : IsPart(p) => IsPart([p EXCEPT !.status = s]) /\ [p EXCEPT !.status = s].status = s
                               /\ [p EXCEPT !.status = s].id = p.id
    BY DEF IsPart
  <1>b. \A p : IsPart(p) => p = [p EXCEPT !.status = p.status]
    BY DEF IsPart
  <1>1. CASE kind \notin {"app_role", "arn_map"}
    <2>1. parse(kind, d) = IF decodes(d) THEN Parsed(byId(d)) ELSE NotParsed
      BY <1>1 DEF parse, ParseUsers
    <2>2. /\ parse(kind, d).ok <=> \A i \in DOMAIN d : d[i].status # "corrupt"
          /\ parse(kind, d).ok => parse(kind, d).store = byId(d)
      BY <1>c, <2>1 DEF decodes
    <2>3. ASSUME parse(kind, d).ok, NEW id PROVE Stores(d, kind, id, GetRole(parse(kind, d).store, id))
      <3>1. parse(kind, d).store = byId(d) /\ \A i \in DOMAIN d : d[i].status # "corrupt"
        BY <2>2, <2>3
      <3>2. CASE id \notin DOMAIN byId(d)
        BY <1>0, <3>1, <3>2, ByIdHas DEF GetRole, Stores
      <3>3. CASE id \in DOMAIN byId(d)
        <4>1. PICK i \in DOMAIN d : IsLast(d, id, i) /\ byId(d)[id] = d[i]
          BY <1>0, <3>3, ByIdHas
        <4>2. GetRole(parse(kind, d).store, id) = d[i]
          BY <3>1, <3>3, <4>1 DEF GetRole
        <4>3. IsPart(d[i]) /\ d[i].status # "absent"
          BY DEF IsDocument
        <4>4. d[i] # NoPart /\ d[i] = [d[i] EXCEPT !.status = statusOf(kind, d[i])]
          BY <1>1, <1>b, <4>3 DEF statusOf, NoPart
        <4>5. QED BY <4>1, <4>2, <4>4 DEF Stores
      <3>4. QED BY <3>2, <3>3
    <2>4. QED BY <1>1, <2>2, <2>3
  <1>2. CASE kind \in {"app_role", "arn_map"}
    <2> DEFINE m == [i \in DOMAIN d |-> [d[i] EXCEPT !.status = IF @ = "" THEN "active" ELSE @]]
    <2>1. parse(kind, d) = IF decodes(d) /\ \A i \in DOMAIN d : d[i].id # <<>> THEN Parsed(byId(m)) ELSE NotParsed
      BY <1>2 DEF parse, ParseRoles, ParseARNs
    <2>2. /\ parse(kind, d).ok <=> \A i \in DOMAIN d : d[i].status # "corrupt" /\ d[i].id # <<>>
          /\ parse(kind, d).ok => parse(kind, d).store = byId(m)
      <3> HIDE DEF m
      <3>1. QED BY <1>c, <2>1 DEF decodes
    <2>3. DOMAIN m = DOMAIN d /\ \A i \in DOMAIN d : m[i] = [d[i] EXCEPT !.status = statusOf(kind, d[i])] /\ m[i].id = d[i].id
      <3>1. \A i \in DOMAIN d : m[i] = [d[i] EXCEPT !.status = statusOf(kind, d[i])]
        BY <1>2 DEF statusOf
      <3>2. \A i \in DOMAIN d : [d[i] EXCEPT !.status = statusOf(kind, d[i])].id = d[i].id
        BY <1>a DEF IsDocument
      <3>3. QED BY <3>1, <3>2
    <2>4. m \in Seq(Words(m)) /\ Len(m) = Len(d)
      <3>1. \A i \in DOMAIN m : m[i] \in Words(m)
        <4> HIDE DEF m
        <4>1. QED BY DEF Words
      <3>2. m = [i \in 1..Len(d) |-> m[i]]
        BY <1>0
      <3> HIDE DEF m
      <3>3. m \in [1..Len(d) -> Words(m)]
        BY <1>0, <2>3, <3>1, <3>2
      <3>4. QED BY <1>0, <3>3
    <2>5. ASSUME parse(kind, d).ok, NEW id PROVE Stores(d, kind, id, GetRole(parse(kind, d).store, id))
      <3>1. parse(kind, d).store = byId(m)
        BY <2>2, <2>5
      <3> HIDE DEF m
      <3>2. CASE id \notin DOMAIN byId(m)
        BY <2>3, <2>4, <3>1, <3>2, ByIdHas DEF GetRole, Stores
      <3>3. CASE id \in DOMAIN byId(m)
        <4>1. PICK i \in DOMAIN m : IsLast(m, id, i) /\ byId(m)[id] = m[i]
          BY <2>4, <3>3, ByIdHas
        <4>2. GetRole(parse(kind, d).store, id) = m[i]
          BY <3>1, <3>3, <4>1 DEF GetRole
        <4>3. IsLast(d, id, i)
          <5>1. i \in 1..Len(d) /\ \A j \in (i + 1)..Len(d) : j \in DOMAIN d
            BY <1>0, <2>3
          <5>2. QED BY <2>3, <2>4, <4>1, <5>1 DEF IsLast
        <4>4. statusOf(kind, d[i]) # "absent" /\ m[i].status = statusOf(kind, d[i])
          <5>1. IsPart(d[i]) /\ d[i].status # "absent" /\ m[i] = [d[i] EXCEPT !.status = statusOf(kind, d[i])]
            BY <2>3 DEF IsDocument
          <5>2. m[i].status = statusOf(kind, d[i])
            BY <1>a, <5>1
          <5>3. statusOf(kind, d[i]) # "absent"
            BY <5>1 DEF statusOf
          <5>4. QED BY <5>2, <5>3
        <4>5. m[i] # NoPart
          BY <4>4 DEF NoPart
        <4>6. QED BY <2>3, <4>2, <4>3, <4>5 DEF Stores
      <3>4. QED BY <3>2, <3>3
    <2> HIDE DEF m
    <2>6. QED BY <1>2, <2>2, <2>5
  <1>3. QED BY <1>1, <1>2

-----------------------------------------------------------------------------
(* The hosts of AWS.                                                       *)

(* The words at the end of a sequence.                                     *)
LEMMA SuffixIs ==
    ASSUME NEW X, NEW s \in Seq(X), NEW t \in Seq(X)
    PROVE  IsSuffix(s, t) <=> Len(s) <= Len(t) /\ \A i \in 1..Len(s) : s[i] = t[i + (Len(t) - Len(s))]
  <1> DEFINE m == Len(s)
             n == Len(t)
             rs == [i \in 1..m |-> s[(m - i) + 1]]
             rt == [i \in 1..n |-> t[(n - i) + 1]]
  <1>1. m \in Nat /\ n \in Nat
    OBVIOUS
  <1>2. Reverse(s) = rs /\ Reverse(t) = rt
    BY DEF Reverse
  <1>3. rs \in Seq(X) /\ Len(rs) = m /\ rt \in Seq(X) /\ Len(rt) = n
    <2>1. rs \in [1..m -> X] /\ rt \in [1..n -> X]
      OBVIOUS
    <2>2. \A k \in Nat : \A r \in [1..k -> X] : r \in Seq(X) /\ Len(r) = k
      OBVIOUS
    <2> HIDE DEF rs, rt, m, n
    <2>3. QED BY <1>1, <2>1, <2>2
  <1>4. IsSuffix(s, t) <=> m <= n /\ SubSeq(rs, 1, m) = SubSeq(rt, 1, m)
    <2> HIDE DEF rs, rt
    <2>1. QED BY <1>2, <1>3 DEF IsSuffix, IsPrefix
  <1>5. CASE m <= n
    <2>1. SubSeq(rs, 1, m) = [i \in 1..m |-> rs[i]] /\ SubSeq(rt, 1, m) = [i \in 1..m |-> rt[i]]
      <3> HIDE DEF rs, rt
      <3>1. \A r \in Seq(X) : m <= Len(r) => SubSeq(r, 1, m) = [i \in 1..m |-> r[i]]
        BY <1>1
      <3>2. QED BY <1>3, <1>5, <3>1
    <2>2. SubSeq(rs, 1, m) = SubSeq(rt, 1, m) <=> \A i \in 1..m : rs[i] = rt[i]
      <3> HIDE DEF rs, rt
      <3>1. ASSUME SubSeq(rs, 1, m) = SubSeq(rt, 1, m), NEW i \in 1..m PROVE rs[i] = rt[i]
        BY <2>1, <3>1
      <3>2. ASSUME \A i \in 1..m : rs[i] = rt[i] PROVE SubSeq(rs, 1, m) = SubSeq(rt, 1, m)
        BY <2>1, <3>2
      <3>3. QED BY <3>1, <3>2
    <2>3. \A i \in 1..m : rs[i] = s[(m - i) + 1] /\ rt[i] = t[(n - i) + 1]
      BY <1>1, <1>5
    <2> HIDE DEF rs, rt
    <2>4. ASSUME \A i \in 1..m : rs[i] = rt[i], NEW i \in 1..m PROVE s[i] = t[i + (n - m)]
      <3>0. (m - i) + 1 \in 1..m
        BY <1>1
      <3>1. PICK k \in 1..m : k = (m - i) + 1
        BY <3>0
      <3>2. s[(m - k) + 1] = t[(n - k) + 1]
        BY <2>3, <2>4
      <3>3. (m - k) + 1 = i /\ (n - k) + 1 = i + (n - m)
        BY <1>1, <3>1
      <3>4. QED BY <3>2, <3>3
    <2>5. ASSUME \A i \in 1..m : s[i] = t[i + (n - m)], NEW i \in 1..m PROVE rs[i] = rt[i]
      <3>1. (m - i) + 1 \in 1..m
        BY <1>1
      <3>2. s[(m - i) + 1] = t[((m - i) + 1) + (n - m)]
        BY <2>5, <3>1
      <3>3. ((m - i) + 1) + (n - m) = (n - i) + 1
        BY <1>1
      <3>4. QED BY <2>3, <3>2, <3>3
    <2>6. QED BY <1>4, <1>5, <2>2, <2>4, <2>5
  <1>6. CASE ~(m <= n)
    BY <1>4, <1>6
  <1>7. QED BY <1>5, <1>6

(* A host is trusted if and only if a name of AWS names it.                *)
LEMMA TrustedIs ==
    ASSUME NEW host \in Seq(STRING)
    PROVE  IsTrustedHost(host) <=> \E t \in Trusted : named(t, host)
  <1> SUFFICES ASSUME NEW t \in Trusted
               PROVE  (IF t[1] = "*" THEN IsSuffix(Tail(t), host) /\ Len(host) >= Len(t) ELSE t = host) <=> named(t, host)
    BY DEF IsTrustedHost
  <1>1. t \in Seq(STRING) /\ t # <<>> /\ (t[1] = "*" => Len(t) > 1)
    BY LoginAssumption
  <1>2. CASE t[1] # "*"
    BY <1>2 DEF named
  <1>3. CASE t[1] = "*"
    <2> DEFINE m == Len(t)
               n == Len(host)
               u == Tail(t)
    <2>1. m \in Nat /\ n \in Nat /\ m > 1
      BY <1>1, <1>3
    <2>2. u \in Seq(STRING) /\ Len(u) = m - 1 /\ \A i \in 1..(m - 1) : u[i] = t[i + 1]
      BY <1>1, <2>1
    <2>3. \A k \in 1..(n - 1) : SubSeq(host, k + 1, n) = [i \in 1..(n - k) |-> host[i + k]]
      <3> SUFFICES ASSUME NEW k \in 1..(n - 1) PROVE SubSeq(host, k + 1, n) = [i \in 1..(n - k) |-> host[i + k]]
        OBVIOUS
      <3>1. SubSeq(host, k + 1, n) = [i \in 1..((n - (k + 1)) + 1) |-> host[(i + (k + 1)) - 1]]
        BY <2>1
      <3>2. (n - (k + 1)) + 1 = n - k /\ \A i \in 1..(n - k) : (i + (k + 1)) - 1 = i + k
        BY <2>1
      <3>3. QED BY <3>1, <3>2
    <2> DEFINE trusted == IsSuffix(u, host) /\ n >= m
    <2>4. trusted <=> m <= n /\ \A i \in 1..(m - 1) : u[i] = host[i + (n - (m - 1))]
      <3> HIDE DEF u
      <3>1. IsSuffix(u, host) <=> m - 1 <= n /\ \A i \in 1..(m - 1) : u[i] = host[i + (n - (m - 1))]
        BY <2>2, SuffixIs
      <3>2. QED BY <2>1, <3>1
    <2>5. ASSUME trusted PROVE named(t, host)
      <3> DEFINE k == n - (m - 1)
      <3>1. k \in 1..(n - 1) /\ n - k = m - 1
        BY <2>1, <2>4, <2>5
      <3> HIDE DEF u
      <3>2. u = [i \in 1..(m - 1) |-> u[i]]
        BY <2>1, <2>2
      <3>3. \A i \in 1..(m - 1) : u[i] = host[i + k]
        BY <2>4, <2>5
      <3>4. SubSeq(host, k + 1, n) = [i \in 1..(m - 1) |-> host[i + k]]
        BY <2>3, <3>1
      <3>5. u = SubSeq(host, k + 1, n)
        BY <3>2, <3>3, <3>4
      <3> HIDE DEF k
      <3>6. QED BY <1>3, <3>1, <3>5 DEF named, u
    <2>6. ASSUME NEW k \in 1..(n - 1), u = SubSeq(host, k + 1, n) PROVE trusted
      <3>1. u = [i \in 1..(n - k) |-> host[i + k]]
        BY <2>3, <2>6
      <3> HIDE DEF u
      <3>2. n - k \in Nat /\ Len(u) = n - k
        BY <2>1, <3>1
      <3>a. n - k = m - 1
        BY <2>2, <3>2
      <3>3. k = n - (m - 1) /\ m <= n
        <4> HIDE DEF m, n
        <4>1. QED BY <2>1, <3>a
      <3>4. \A i \in 1..(m - 1) : u[i] = host[i + k]
        BY <2>1, <3>1, <3>3
      <3>5. QED BY <2>4, <3>3, <3>4
    <2>7. ASSUME t = host PROVE trusted
      <3>1. m = n /\ \A i \in 1..(m - 1) : i + (n - (m - 1)) = i + 1
        BY <2>1, <2>7
      <3>2. QED BY <2>1, <2>2, <2>4, <2>7, <3>1
    <2>8. QED BY <1>3, <2>5, <2>6, <2>7 DEF named
  <1>4. QED BY <1>2, <1>3

-----------------------------------------------------------------------------
(* Which parts of a payload let somebody in.                               *)

LEMMA DocumentsAre == \A d \in Documents : IsDocument(d)
  BY LoginAssumption DEF IsDocument

(* A part keeps its other fields when its status is set.                   *)
LEMMA EntryFields ==
    ASSUME NEW p, IsPart(p), NEW s
    PROVE  LET e == [p EXCEPT !.status = s]
           IN  e.status = s /\ e.id = p.id /\ e.secrets = p.secrets /\ e.expired = p.expired /\ e.from = p.from /\ e.roles = p.roles
  <1>1. p = [id |-> p.id, status |-> p.status, secrets |-> p.secrets, expired |-> p.expired, from |-> p.from, roles |-> p.roles]
    BY DEF IsPart
  <1>2. QED BY <1>1

(* A store has an entry of an ID that is let in, if and only if the last   *)
(* part with the ID is.                                                    *)
LEMMA EntryOf ==
    ASSUME NEW d, IsDocument(d), NEW kind, parse(kind, d).ok, NEW id
    PROVE  LET entry == GetRole(parse(kind, d).store, id)
           IN  \/ entry = NoPart /\ \A i \in DOMAIN d : d[i].id # id
               \/ /\ entry # NoPart
                  /\ \E i \in DOMAIN d :
                        /\ IsLast(d, id, i) /\ \A j \in DOMAIN d : IsLast(d, id, j) => j = i
                        /\ entry.secrets = d[i].secrets /\ entry.expired = d[i].expired /\ entry.from = d[i].from
                        /\ kind \in {"app_role", "arn_map"} => (entry.status = "active" <=> d[i].status # "disabled")
  <1> DEFINE entry == GetRole(parse(kind, d).store, id)
  <1>1. Stores(d, kind, id, entry) /\ \A i \in DOMAIN d : d[i].status # "corrupt"
    BY ParsesTo
  <1> HIDE DEF entry
  <1>2. CASE entry = NoPart /\ \A i \in DOMAIN d : d[i].id # id
    BY <1>2 DEF entry
  <1>3. CASE /\ entry # NoPart
             /\ \E i \in DOMAIN d : IsLast(d, id, i) /\ entry = [d[i] EXCEPT !.status = statusOf(kind, d[i])]
    <2>1. PICK i \in DOMAIN d : IsLast(d, id, i) /\ entry = [d[i] EXCEPT !.status = statusOf(kind, d[i])]
      BY <1>3
    <2>2. IsPart(d[i]) /\ d[i].status \in {"", "active", "disabled"}
      BY <1>1 DEF IsDocument
    <2>3. /\ entry.secrets = d[i].secrets /\ entry.expired = d[i].expired /\ entry.from = d[i].from
          /\ entry.status = statusOf(kind, d[i])
      BY <2>1, <2>2, EntryFields
    <2>4. kind \in {"app_role", "arn_map"} => (entry.status = "active" <=> d[i].status # "disabled")
      BY <2>2, <2>3 DEF statusOf
    <2>5. \A j \in DOMAIN d : IsLast(d, id, j) => j = i
      BY <2>1, OneLast
    <2>6. QED BY <1>3, <2>1, <2>3, <2>4, <2>5 DEF entry
  <1>4. QED BY <1>1, <1>2, <1>3 DEF Stores

LEMMA RoleGrants ==
    ASSUME NEW d, IsDocument(d), parse("app_role", d).ok, NEW r, r.scheme = "approle", r.bad \subseteq Unreadable
    PROVE  LoginAnswer(parse("app_role", d).store, r).code = "OK"
               <=> r.bad = {} /\ \E i \in DOMAIN d : IsLast(d, r.id, i) /\ grants(d[i], r)
  <1> DEFINE store == parse("app_role", d).store
             entry == GetRole(store, r.id)
             allows == entry # NoPart /\ entry.status = "active" /\ (entry.from = {} \/ r.ip \in entry.from)
                       /\ r.secret \in entry.secrets \ entry.expired
  <1>1. LoginAnswer(store, r).code = "OK" <=> r.bad \cap Garbled = {} /\ roleGranted(store, r)
    BY GrpcAnswer, RoleIdentity DEF identityOf, Schemes
  <1>2. r.bad = {} <=> r.bad \cap Garbled = {} /\ r.bad \cap {"json", "fields"} = {}
    BY DEF Unreadable, Garbled
  <1>3. roleGranted(store, r) <=> r.bad \cap {"json", "fields"} = {} /\ allows
    BY DEF roleGranted
  <1>4. \A p : grants(p, r) <=> /\ p.status # "disabled" /\ r.secret \in p.secrets \ p.expired
                                /\ (p.from = {} \/ r.ip \in p.from)
    BY DEF grants, kindOf
  <1>5. allows <=> \E i \in DOMAIN d : IsLast(d, r.id, i) /\ grants(d[i], r)
    <2>1. CASE entry = NoPart /\ \A i \in DOMAIN d : d[i].id # r.id
      BY <2>1 DEF IsLast
    <2>2. CASE ~(entry = NoPart /\ \A i \in DOMAIN d : d[i].id # r.id)
      <3>1. PICK i \in DOMAIN d :
                /\ entry # NoPart
                /\ IsLast(d, r.id, i) /\ \A j \in DOMAIN d : IsLast(d, r.id, j) => j = i
                /\ entry.secrets = d[i].secrets /\ entry.expired = d[i].expired /\ entry.from = d[i].from
                /\ (entry.status = "active" <=> d[i].status # "disabled")
        BY <2>2, EntryOf
      <3> HIDE DEF entry
      <3>2. allows <=> grants(d[i], r)
        BY <1>4, <3>1
      <3> HIDE DEF allows
      <3>3. QED BY <3>1, <3>2
    <2>3. QED BY <2>1, <2>2
  <1> HIDE DEF store, allows
  <1>6. QED BY <1>1, <1>2, <1>3, <1>5 DEF store

LEMMA ARNGrants ==
    ASSUME NEW d, IsDocument(d), parse("arn_map", d).ok, NEW r, r.scheme = "aws-sts",
           r.bad \subseteq Unreadable \cup {"wire", "method"}, r.reply \in Replies, r.host \in Seq(STRING)
    PROVE  LoginAnswer(parse("arn_map", d).store, r).code = "OK"
               <=> r.bad = {} /\ \E i \in DOMAIN d : IsLast(d, NormalizeARN(r.id), i) /\ grants(d[i], r)
  <1> DEFINE store == parse("arn_map", d).store
             arn == NormalizeARN(r.id)
             entry == GetRole(store, arn)
             allows == entry # NoPart /\ entry.status = "active"
             vouched == IsTrustedHost(r.host) /\ r.reply \notin Replies \ {"ok"}
  <1>1. LoginAnswer(store, r).code = "OK" <=> r.bad \cap Garbled = {} /\ arnGranted(store, r)
    BY GrpcAnswer, ARNIdentity DEF identityOf, Schemes
  <1>2. r.bad = {} <=> r.bad \cap Garbled = {} /\ r.bad \cap {"json", "fields", "wire", "method"} = {}
    BY DEF Unreadable, Garbled
  <1>3. arnGranted(store, r) <=> r.bad \cap {"json", "fields", "wire", "method"} = {} /\ allows /\ vouched
    BY DEF arnGranted
  <1>4. \A p : grants(p, r) <=> p.status # "disabled" /\ vouched
    <2>1. vouched <=> r.reply = "ok" /\ \E t \in Trusted : named(t, r.host)
      BY TrustedIs
    <2>2. \A p : grants(p, r) <=> p.status # "disabled" /\ r.reply = "ok" /\ \E t \in Trusted : named(t, r.host)
      BY DEF grants, kindOf
    <2> HIDE DEF vouched
    <2>3. QED BY <2>1, <2>2
  <1> HIDE DEF vouched
  <1> HIDE DEF arn
  <1>5. allows /\ vouched <=> \E i \in DOMAIN d : IsLast(d, arn, i) /\ grants(d[i], r)
    <2>1. CASE entry = NoPart /\ \A i \in DOMAIN d : d[i].id # arn
      BY <2>1 DEF IsLast
    <2>2. CASE ~(entry = NoPart /\ \A i \in DOMAIN d : d[i].id # arn)
      <3>0. /\ entry # NoPart
            /\ \E i \in DOMAIN d :
                  /\ IsLast(d, arn, i) /\ \A j \in DOMAIN d : IsLast(d, arn, j) => j = i
                  /\ entry.secrets = d[i].secrets /\ entry.expired = d[i].expired /\ entry.from = d[i].from
                  /\ "arn_map" \in {"app_role", "arn_map"} => (entry.status = "active" <=> d[i].status # "disabled")
        BY <2>2, EntryOf
      <3>1. PICK i \in DOMAIN d :
                /\ entry # NoPart
                /\ IsLast(d, arn, i) /\ \A j \in DOMAIN d : IsLast(d, arn, j) => j = i
                /\ (entry.status = "active" <=> d[i].status # "disabled")
        BY <3>0
      <3> HIDE DEF entry
      <3>2. allows /\ vouched <=> grants(d[i], r)
        BY <1>4, <3>1
      <3> HIDE DEF allows
      <3>3. QED BY <3>1, <3>2
    <2>3. QED BY <2>1, <2>2
  <1> HIDE DEF store, allows
  <1>6. QED BY <1>1, <1>2, <1>3, <1>5 DEF store, arn

LEMMA UserGrants ==
    ASSUME NEW d, IsDocument(d), parse("basic_auth", d).ok, NEW r, r.scheme = "basic", r.bad \subseteq {"header"}
    PROVE  LoginAnswer(parse("basic_auth", d).store, r).code = "OK"
               <=> r.bad = {} /\ \E i \in DOMAIN d : IsLast(d, r.id, i) /\ grants(d[i], r)
  <1> DEFINE store == parse("basic_auth", d).store
             entry == GetRole(store, r.id)
             allows == entry # NoPart /\ r.secret \in entry.secrets
  <1>1. LoginAnswer(store, r).code = "OK" <=> "header" \notin r.bad /\ allows
    BY BasicAnswer
  <1>2. r.bad = {} <=> "header" \notin r.bad
    OBVIOUS
  <1>3. \A p : grants(p, r) <=> r.secret \in p.secrets
    BY DEF grants, kindOf
  <1>4. allows <=> \E i \in DOMAIN d : IsLast(d, r.id, i) /\ grants(d[i], r)
    <2>1. CASE entry = NoPart /\ \A i \in DOMAIN d : d[i].id # r.id
      BY <2>1 DEF IsLast
    <2>2. CASE ~(entry = NoPart /\ \A i \in DOMAIN d : d[i].id # r.id)
      <3>1. PICK i \in DOMAIN d :
                /\ entry # NoPart /\ entry.secrets = d[i].secrets
                /\ IsLast(d, r.id, i) /\ \A j \in DOMAIN d : IsLast(d, r.id, j) => j = i
        BY <2>2, EntryOf
      <3> HIDE DEF entry
      <3>2. allows <=> grants(d[i], r)
        BY <1>3, <3>1
      <3> HIDE DEF allows
      <3>3. QED BY <3>1, <3>2
    <2>3. QED BY <2>1, <2>2
  <1> HIDE DEF store, allows
  <1>5. QED BY <1>1, <1>2, <1>4 DEF store

(* The source that counts is the one that is parsed.                       *)
LEMMA LoadsFirst ==
    ASSUME NEW env \in Envs, NEW items \in Documents, NEW kind
    PROVE  LET d == IF env.set THEN env.payload ELSE items
           IN  d \in Documents /\ loaded(kind, env, Recs(items)) = parse(kind, d)
  <1> DEFINE d == IF env.set THEN env.payload ELSE items
             recs == Recs(items)
             src == <<EnvSource(env), DynamoSource(kind, recs, TRUE)>>
             I == {i \in 1..2 : src[i].status # "next"}
             i == IF I # {} THEN CHOOSE x \in I : \A y \in I : x <= y ELSE 0
  <1>1. env.set \in BOOLEAN /\ (env.set => env.payload \in Documents)
    <2>1. CASE env = [set |-> FALSE, payload |-> <<>>]
      <3>1. env.set = FALSE
        BY <2>1
      <3>2. QED BY <3>1
    <2>2. CASE env \in [set : {TRUE}, payload : {e \in Documents : Len(e) < 2}]
      <3>1. env.set \in {TRUE} /\ env.payload \in {e \in Documents : Len(e) < 2}
        BY <2>2
      <3>2. QED BY <3>1
    <2>3. QED BY <2>1, <2>2 DEF Envs
  <1>2. d \in Documents
    BY <1>1
  <1>3. assemble(kind, recs) = items
    <2>1. IsDocument(items)
      BY DocumentsAre
    <2>2. items \in Seq(Words(items))
      BY <2>1 DEF IsDocument
    <2>3. items = [j \in DOMAIN items |-> items[j]]
      BY <2>2
    <2>4. DOMAIN recs = DOMAIN items /\ \A j \in DOMAIN items : recs[j].id = items[j].id /\ recs[j].data = items[j]
      BY DEF Recs
    <2>5. \A p : IsPart(p) => [p EXCEPT !.id = p.id] = p
      BY DEF IsPart
    <2>6. \A j \in DOMAIN items : (IF kind = "basic_auth" THEN [recs[j].data EXCEPT !.id = recs[j].id] ELSE recs[j].data) = items[j]
      BY <2>1, <2>4, <2>5 DEF IsDocument
    <2> HIDE DEF recs
    <2>7. assemble(kind, recs) = [j \in DOMAIN items |-> items[j]]
      BY <2>4, <2>6 DEF assemble
    <2>8. QED BY <2>3, <2>7
  <1>4. /\ src[2].status = "found" /\ src[2].payload = items
        /\ env.set => src[1].status = "found" /\ src[1].payload = env.payload
        /\ ~env.set => src[1].status = "next"
    BY <1>3 DEF EnvSource, DynamoSource, Found, NotFound
  <1>5. Chain(src) = IF i = 0 THEN NotFound ELSE src[i]
    BY DEF Chain, SelectInSeq, Min
  <1>a. loaded(kind, env, recs) = parse(kind, Chain(src).payload)
    BY DEF loaded
  <1> HIDE DEF src
  <1>6. CASE env.set
    <2>1. 1 \in I /\ \A x \in I : x \in {1, 2}
      BY <1>4, <1>6
    <2> HIDE DEF I
    <2>2. i = 1
      <3>1. \A x \in I : (\A y \in I : x <= y) => x = 1
        BY <2>1
      <3>2. \A y \in I : 1 <= y
        BY <2>1
      <3>3. QED BY <2>1, <3>1, <3>2
    <2> HIDE DEF i, recs
    <2>3. loaded(kind, env, recs) = parse(kind, env.payload)
      BY <1>4, <1>5, <1>6, <1>a, <2>2
    <2>4. QED BY <1>2, <1>6, <2>3 DEF recs
  <1>7. CASE ~env.set
    <2>1. I = {2}
      BY <1>4, <1>7
    <2> HIDE DEF I
    <2>2. i = 2
      BY <2>1
    <2> HIDE DEF i, recs
    <2>3. loaded(kind, env, recs) = parse(kind, items)
      BY <1>4, <1>5, <1>a, <2>2
    <2>4. QED BY <1>2, <1>7, <2>3 DEF recs
  <1>8. QED BY <1>1, <1>6, <1>7

(* A login succeeds if and only if the source that counts grants it, see   *)
(* Exact: whatever is in a payload, in which order and how often, and      *)
(* whatever is asked for.                                                  *)
THEOREM LoginsExact == Exact
  <1> SUFFICES ASSUME NEW env \in Envs, NEW items \in Documents, NEW r \in Requests PROVE exact(env, items, r)
    BY DEF Exact
  <1> DEFINE kind == kindOf(r.scheme)
             d == IF env.set THEN env.payload ELSE items
             served == loaded(kind, env, Recs(items))
             id == IF kind = "arn_map" THEN NormalizeARN(r.id) ELSE r.id
             good == r.bad = {} /\ r.scheme \in Schemes \cup {"basic"}
             granted == \E i \in DOMAIN d : d[i].id = id /\ grants(d[i], r) /\ \A j \in (i + 1)..Len(d) : d[j].id # id
  <1>1. exact(env, items, r) <=>
            /\ served.ok <=> \A i \in DOMAIN d : ~spoilt(kind, d[i])
            /\ served.ok => (LoginAnswer(served.store, r).code = "OK" <=> good /\ granted)
    BY DEF exact
  <1>2. d \in Documents /\ served = parse(kind, d)
    BY LoadsFirst
  <1> HIDE DEF d, served
  <1>3. IsDocument(d)
    BY <1>2, DocumentsAre
  <1>4. kind = IF r.scheme = "approle" THEN "app_role" ELSE IF r.scheme = "aws-sts" THEN "arn_map" ELSE "basic_auth"
    BY DEF kindOf
  <1>5. granted <=> \E i \in DOMAIN d : IsLast(d, id, i) /\ grants(d[i], r)
    BY DEF IsLast
  <1>6. served.ok <=> \A i \in DOMAIN d : ~spoilt(kind, d[i])
    <2>1. kind \in {"app_role", "arn_map"} <=> kind # "basic_auth"
      BY <1>4
    <2>2. \A p : ~spoilt(kind, p) <=> p.status # "corrupt" /\ (kind \in {"app_role", "arn_map"} => p.id # <<>>)
      BY <2>1 DEF spoilt
    <2> HIDE DEF kind
    <2>3. QED BY <1>2, <1>3, <2>2, ParsesTo
  <1>7. /\ r.reply \in Replies /\ r.host \in Seq(STRING)
        /\ r.bad \subseteq CASE r.scheme = "basic"   -> {"header"}
                             [] r.scheme = "aws-sts" -> Unreadable \cup {"wire", "method"}
                             [] OTHER                -> Unreadable
    BY LoginAssumption
  <1> HIDE DEF granted
  <1>8. ASSUME served.ok PROVE LoginAnswer(served.store, r).code = "OK" <=> good /\ granted
    <2>1. CASE r.scheme = "approle"
      <3>1. kind = "app_role" /\ id = r.id
        BY <1>4, <2>1
      <3>2. r.bad \subseteq Unreadable
        BY <1>7, <2>1
      <3> HIDE DEF kind, id
      <3>3. QED BY <1>2, <1>3, <1>5, <1>8, <2>1, <3>1, <3>2, RoleGrants DEF Schemes
    <2>2. CASE r.scheme = "aws-sts"
      <3>1. kind = "arn_map" /\ id = NormalizeARN(r.id)
        BY <1>4, <2>2
      <3>2. r.bad \subseteq Unreadable \cup {"wire", "method"}
        BY <1>7, <2>2
      <3> HIDE DEF kind, id
      <3>3. QED BY <1>2, <1>3, <1>5, <1>7, <1>8, <2>2, <3>1, <3>2, ARNGrants DEF Schemes
    <2>3. CASE r.scheme = "basic"
      <3>1. kind = "basic_auth" /\ id = r.id
        BY <1>4, <2>3
      <3>2. r.bad \subseteq {"header"}
        BY <1>7, <2>3
      <3> HIDE DEF kind, id
      <3>3. QED BY <1>2, <1>3, <1>5, <1>8, <2>3, <3>1, <3>2, UserGrants
    <2>4. CASE r.scheme \notin Schemes \cup {"basic"}
      <3>1. r.scheme # "basic" /\ r.scheme \notin Schemes
        BY <2>4
      <3>2. QED BY <2>4, <3>1, GrpcAnswer
    <2>5. QED BY <2>1, <2>2, <2>3, <2>4 DEF Schemes
  <1>9. QED BY <1>1, <1>6, <1>8

-----------------------------------------------------------------------------
(* What a refusal tells, and a token.                                      *)

LEMMA RefusedRole ==
    ASSUME NEW store, NEW r, r.bad = {}, AuthenticateRole(store, r).error # "none"
    PROVE  authErrorRules(AuthenticateRole(store, r).error) = "Unauthenticated"
  <1> DEFINE e == AuthenticateRole(store, r).error
             fails == RoleFails(store, r)
  <1>1. e \in Words(roleChecks) /\ fails[e]
    BY RoleIdentity
  <1>2. ~fails["notJson"] /\ ~fails["ErrInvalidCredential"]
    BY RoleFailures
  <1> HIDE DEF e, fails
  <1>3. e \in {"ErrRoleNotFound", "ErrRoleDisabled", "ErrSourceNotAllowed", "ErrInvalidSecret"}
    BY <1>1, <1>2, RoleWords
  <1>4. authErrorRules(e) = "Unauthenticated"
    BY <1>3 DEF authErrorRules
  <1>5. QED BY <1>4 DEF e

LEMMA RefusedARN ==
    ASSUME NEW store, NEW r, r.bad = {}, r.reply \notin {"down", "5xx", "cut"},
           AuthenticateARN(store, r).error # "none"
    PROVE  authErrorRules(AuthenticateARN(store, r).error) = "Unauthenticated"
  <1> DEFINE e == AuthenticateARN(store, r).error
             fails == ARNFails(store, r)
  <1>1. e \in Words(arnChecks) /\ fails[e]
    BY ARNIdentity
  <1>2. /\ ~fails["notJson"] /\ ~fails["ErrInvalidCredential"] /\ ~fails["ErrDecodeFailed"]
        /\ ~fails["noRequest"] /\ ~fails["ErrSTSUnavailable"]
    BY ARNFailures
  <1> HIDE DEF e, fails
  <1>3. e \in {"ErrUnknownARN", "ErrARNDisabled", "ErrUntrustedHost", "ErrSTSRejected"}
    BY <1>1, <1>2, ARNWords, STSWords
  <1>4. authErrorRules(e) = "Unauthenticated"
    BY <1>3 DEF authErrorRules
  <1>5. QED BY <1>4 DEF e

(* Whoever is refused hears the same, whatever was wrong, see Alike.       *)
THEOREM FailuresCollapse == Alike
  <1> SUFFICES ASSUME NEW d \in Documents, NEW r \in Requests,
                      r.bad = {}, r.reply \notin {"down", "5xx", "cut"},
                      LoginAnswer(parse(kindOf(r.scheme), d).store, r).code # "OK"
               PROVE  LET answer == LoginAnswer(parse(kindOf(r.scheme), d).store, r)
                      IN  /\ answer.code = IF r.scheme = "basic" THEN "ErrInvalidCredentials" ELSE "Unauthenticated"
                          /\ answer.subject = <<>> /\ answer.roles = {}
    BY DEF Alike
  <1> DEFINE store == parse(kindOf(r.scheme), d).store
             answer == LoginAnswer(store, r)
  <1> HIDE DEF store
  <1>1. answer.code # "OK"
    BY DEF store
  <1>2. \A c, i : Answer(c, i) = [code |-> c, subject |-> i.subject, roles |-> i.roles]
    BY DEF Answer
  <1>3. answer.code = (IF r.scheme = "basic" THEN "ErrInvalidCredentials" ELSE "Unauthenticated")
        /\ answer.subject = <<>> /\ answer.roles = {}
    <2>1. CASE r.scheme = "basic"
      <3> DEFINE user == ValidatePassword(store, r)
      <3>1. /\ answer.code = "OK" <=> user.error = "none"
            /\ answer = Answer(IF user.error = "none" THEN "OK" ELSE "ErrInvalidCredentials", user)
            /\ user.error # "none" => Anonymous(user)
        BY <2>1, BasicAnswer
      <3> HIDE DEF user, answer
      <3>2. Anonymous(user) /\ answer = Answer("ErrInvalidCredentials", user)
        BY <1>1, <3>1
      <3>3. QED BY <1>2, <2>1, <3>2 DEF Anonymous
    <2>2. CASE r.scheme # "basic"
      <3> DEFINE identity == identityOf(store, r)
      <3>1. /\ answer.code = "OK" <=> r.scheme \in Schemes /\ identity.error = "none"
            /\ answer = IF r.scheme \notin Schemes THEN Answer("Unauthenticated", NoIdentity)
                        ELSE Answer(IF identity.error = "none" THEN "OK" ELSE authErrorRules(identity.error), identity)
        BY <2>2, GrpcAnswer
      <3> HIDE DEF answer
      <3>2. CASE r.scheme \notin Schemes
        <4>1. answer = Answer("Unauthenticated", NoIdentity)
          BY <3>1, <3>2
        <4>2. NoIdentity.subject = <<>> /\ NoIdentity.roles = {}
          BY DEF NoIdentity
        <4>3. QED BY <1>2, <2>2, <4>1, <4>2
      <3>3. CASE r.scheme \in Schemes
        <4>1. identity.error # "none" /\ answer = Answer(authErrorRules(identity.error), identity)
          BY <1>1, <3>1, <3>3
        <4>2. authErrorRules(identity.error) = "Unauthenticated" /\ Anonymous(identity)
          <5>1. CASE r.scheme = "aws-sts"
            BY <4>1, <5>1, RefusedARN, ARNIdentity DEF identityOf
          <5>2. CASE r.scheme # "aws-sts"
            BY <4>1, <5>2, RefusedRole, RoleIdentity DEF identityOf
          <5>3. QED BY <5>1, <5>2
        <4> HIDE DEF identity
        <4>3. QED BY <1>2, <2>2, <4>1, <4>2 DEF Anonymous
      <3>4. QED BY <3>2, <3>3
    <2>3. QED BY <2>1, <2>2
  <1>4. QED BY <1>3 DEF store

(* A token of somebody, read while it lives and after.                     *)
LEMMA TokenRead ==
    ASSUME NEW who, NEW now \in Nat, NEW later \in Nat
    PROVE  IF later \in now..(now + TTL - 1)
           THEN tryJwt(Mint(who, now), later) = Answer("OK", who)
           ELSE tryJwt(Mint(who, now), later).code # "OK"
  <1> DEFINE token == Mint(who, now)
  <1>1. TTL \in Nat \ {0}
    BY LoginAssumption
  <1>2. token.subject = who.subject /\ token.roles = who.roles /\ token.from = now /\ token.until = now + TTL
    BY DEF Mint
  <1>3. Answer("OK", token) = Answer("OK", who)
    BY <1>2 DEF Answer
  <1> HIDE DEF token
  <1>4. CASE later \in now..(now + TTL - 1)
    <2>1. ~(later >= token.until) /\ ~(later < token.from)
      BY <1>1, <1>2, <1>4
    <2>2. tryJwt(token, later) = Answer("OK", token)
      BY <2>1 DEF tryJwt
    <2>3. QED BY <1>3, <1>4, <2>2 DEF token
  <1>5. CASE later \notin now..(now + TTL - 1)
    <2>1. later >= token.until \/ later < token.from
      BY <1>1, <1>2, <1>5
    <2>2. tryJwt(token, later).code \in {"ErrTokenExpired", "ErrTokenInvalid"}
      BY <2>1 DEF tryJwt, Answer
    <2>3. QED BY <1>5, <2>2 DEF token
  <1>6. QED BY <1>4, <1>5

(* A token tells who logged in, for as long as it lives, see Carries.      *)
THEOREM TokensCarry == Carries
  <1> SUFFICES ASSUME NEW d \in Documents, NEW r \in Requests, NEW now \in 1..2, NEW later \in 0..(TTL + 3),
                      LoginAnswer(parse(kindOf(r.scheme), d).store, r).code = "OK"
               PROVE  LET store == parse(kindOf(r.scheme), d).store
                          answer == LoginAnswer(store, r)
                          token == IF r.scheme = "basic" THEN Token(store, r, now) ELSE Mint(answer, now)
                      IN  IF later \in now..(now + TTL - 1)
                          THEN tryJwt(token, later) = answer
                          ELSE tryJwt(token, later).code # "OK"
    BY DEF Carries
  <1> DEFINE store == parse(kindOf(r.scheme), d).store
             answer == LoginAnswer(store, r)
             token == IF r.scheme = "basic" THEN Token(store, r, now) ELSE Mint(answer, now)
  <1> HIDE DEF store
  <1>1. answer.code = "OK"
    BY DEF store
  <1>2. now \in Nat /\ later \in Nat
    <2>1. TTL \in Nat \ {0}
      BY LoginAssumption
    <2>2. QED BY <2>1
  <1>3. PICK who : token = Mint(who, now) /\ answer = Answer("OK", who)
    <2>1. CASE r.scheme = "basic"
      <3> DEFINE user == ValidatePassword(store, r)
      <3>1. user.error = "none" /\ answer = Answer("OK", user)
        BY <1>1, <2>1, BasicAnswer
      <3>2. token = Mint(user, now)
        BY <2>1, <3>1 DEF Token
      <3>3. QED BY <3>1, <3>2
    <2>2. CASE r.scheme # "basic"
      <3>1. PICK identity : answer = Answer("OK", identity)
        BY <1>1, <2>2, GrpcAnswer
      <3> HIDE DEF answer
      <3>2. answer = Answer("OK", answer)
        BY <3>1 DEF Answer
      <3>3. QED BY <2>2, <3>2
    <2>3. QED BY <2>1, <2>2
  <1> HIDE DEF answer, token
  <1>4. IF later \in now..(now + TTL - 1)
        THEN tryJwt(token, later) = answer
        ELSE tryJwt(token, later).code # "OK"
    BY <1>2, <1>3, TokenRead
  <1>5. QED BY <1>4 DEF store, answer, token
=============================================================================
