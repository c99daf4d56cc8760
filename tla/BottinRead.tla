----------------------------- MODULE BottinRead -----------------------------
(***************************************************************************)
(* The requests of bottin that change no entry: Bind, Compare and Search,  *)
(* with the access control list, the parsing of names, filters and         *)
(* password hashes.  A request arrives as the bytes of module Goldap, so   *)
(* names, values and passwords are sequences of character codes; what the  *)
(* requests do is in module LdapServer for the connection, in module       *)
(* Bottin for the entries.  Here the entries stay as they are.             *)
(***************************************************************************)
EXTENDS Goldap

CONSTANTS BaseDN,    \* bottin-basedn
          ACLDef,    \* bottin-acl, a sequence of rules
          Passwd,    \* bottin-passwd
          Stored     \* the directory: records of a name and attributes

VARIABLES login,     \* the user the connection is bound as
          answer     \* the answer to the last request

session == <<login, answer>>

-----------------------------------------------------------------------------
(***************************************************************************)
(* Text.  Letters are ASCII; a byte that is not becomes the replacement    *)
(* character when Go converts the case of the text it is in.               *)
(***************************************************************************)
Alphabet == " !  $%& ()*+,-./0123456789:;<=>?@ABCDEFGHIJKLMNOPQRSTUVWXYZ[ ]^_ abcdefghijklmnopqrstuvwxyz{|}"
Text(s) == [i \in 1..Len(s) |-> 31 + Min({k \in 1..Len(Alphabet) : SubSeq(Alphabet, k, k) = SubSeq(s, i, i)})]

Space == 32
Exclamation == 33
Star == 42
Comma == 44
Slash == 47
Colon == 58
EqualsSign == 61

RuneError == 65533
Spaces == (9..13) \cup {Space}

Lower(c) == IF c \in 65..90 THEN c + 32 ELSE IF c \in 128..255 THEN RuneError ELSE c
ToLower(s) == [i \in DOMAIN s |-> Lower(s[i])]
EqualFold(s, t) == ToLower(s) = ToLower(t)

TrimSpace(s) ==
  LET kept == {i \in DOMAIN s : s[i] \notin Spaces}
  IN IF kept = {} THEN << >> ELSE SubSeq(s, Min(kept), Max(kept))

Split(s, sep) ==
  LET cuts == SetToSortSeq({i \in DOMAIN s : s[i] = sep}, LAMBDA i, j : i < j)
      ends == <<0>> \o cuts \o <<Len(s) + 1>>
  IN [i \in 1..Len(cuts) + 1 |-> SubSeq(s, ends[i] + 1, ends[i + 1] - 1)]

-----------------------------------------------------------------------------
(***************************************************************************)
(* Names (store/types.go).  A DN is the sequence of its components, the    *)
(* entry's own first; the empty one stands for an error.                   *)
(***************************************************************************)
Invalid == << >>

ParseComponent(raw) ==
  LET splits == Split(raw, EqualsSign)
  IN IF Len(splits) # 2 THEN Invalid
     ELSE [type |-> ToLower(TrimSpace(splits[1])), value |-> ToLower(TrimSpace(splits[2]))]

ParseDN(raw) ==
  LET strs  == Split(raw, Comma)
      comps == [i \in DOMAIN strs |-> ParseComponent(strs[i])]
  IN IF \E i \in DOMAIN strs : comps[i] = Invalid THEN Invalid ELSE comps

ComponentString(c) == c.type \o <<EqualsSign>> \o c.value

joinComponentSlice(comps, separator) ==
  FlattenSeq([i \in DOMAIN comps |->
    (IF i = 1 THEN << >> ELSE <<separator>>) \o ComponentString(comps[i])])

DNString(dn) == joinComponentSlice(dn, Comma)
PrefixString(dn) == joinComponentSlice(Reverse(dn), Slash)
IsPrefixOf(dn, dn2) == IsPrefix(Reverse(dn), Reverse(dn2))
Level(dn) == Len(dn)

Base == ParseDN(BaseDN)

\* A name outside the tree is an error; one above it means all of it when
\* allowPrefix is set.
Within(dn, allowPrefix) ==
  IF dn = Invalid \/ IsPrefixOf(Base, dn) THEN dn
  ELSE IF allowPrefix /\ IsPrefixOf(dn, Base) THEN Base ELSE Invalid
parseDN(raw, allowPrefix) == Within(ParseDN(raw), allowPrefix)

\* The attribute that names the entry is one of its attributes.
NewEntry(dn, attributes) ==
  [dn |-> dn, attributes |-> (dn[1].type :> <<dn[1].value>>) @@ attributes]

Entries == { NewEntry(ParseDN(e.name), e.attributes) : e \in Stored }

Get(e, key) == IF key \in DOMAIN e.attributes THEN Range(e.attributes[key]) ELSE {}

\* The range of the store ends where the last component of the prefix has
\* the largest rune appended, so it holds every entry whose prefix, as text,
\* begins with the text of this one.
List(dn, exact) ==
  { e \in Entries : IF exact THEN e.dn = dn ELSE IsPrefix(PrefixString(dn), PrefixString(e.dn)) }

-----------------------------------------------------------------------------
(***************************************************************************)
(* The access control list (acl.go).                                       *)
(***************************************************************************)
splitNoEmpty(s) == Range(Split(s, Space)) \ {<< >>}

\* user : groups : actions : target : attributes, each list a set.
parseRule(item) ==
  LET parts == Split(item, Colon)
      attrs == splitNoEmpty(parts[5])
      excl  == {s \in attrs : Head(s) = Exclamation}
  IN [user       |-> parts[1],
      groups     |-> splitNoEmpty(parts[2]),
      actions    |-> splitNoEmpty(parts[3]),
      target     |-> parts[4],
      attributes |-> {ToLower(s) : s \in attrs \ excl},
      excluded   |-> {ToLower(Tail(s)) : s \in excl}]

\* Without five parts the server does not start.
ASSUME ACLParses == \A i \in DOMAIN ACLDef : Len(Split(ACLDef[i], Colon)) = 5

acl == { parseRule(ACLDef[i]) : i \in DOMAIN ACLDef }

\* path.Match, for patterns without ? and [: a star stands for any text
\* without a slash.
RECURSIVE Glob(_, _)
Glob(pattern, val) ==
  IF pattern = << >> THEN val = << >>
  ELSE IF Head(pattern) = Star
  THEN \E n \in 0..Len(val) :
         /\ Slash \notin Range(SubSeq(val, 1, n))
         /\ Glob(Tail(pattern), SubSeq(val, n + 1, Len(val)))
  ELSE val # << >> /\ Head(val) = Head(pattern) /\ Glob(Tail(pattern), Tail(val))

match(pattern, val) == Glob(ToLower(pattern), ToLower(val))
matchAny(pattern, vals) == \E val \in vals : match(pattern, val)
anyMatch(patterns, val) == \E pattern \in patterns : match(pattern, val)

\* The end of the target that is the user's name, as it was given when the
\* connection was bound, may also be written SELF.
TargetMatches(rule, user, target) ==
  \/ match(rule.target, target)
  \/ /\ IsSuffix(user.user, target)
     /\ match(rule.target, SubSeq(target, 1, Len(target) - Len(user.user)) \o Text("SELF"))

RuleCheck(rule, user, action, target, attributes) ==
  /\ match(rule.user, user.user)
  /\ \A grp \in rule.groups : matchAny(grp, user.groups)
  /\ TargetMatches(rule, user, target)
  /\ anyMatch(rule.actions, Text(action))
  /\ \A attrib \in attributes : anyMatch(rule.attributes, attrib)
  /\ \A excl \in rule.excluded : ~matchAny(excl, attributes)

Check(user, action, target, attributes) ==
  \E rule \in acl : RuleCheck(rule, user, action, DNString(target), attributes)

-----------------------------------------------------------------------------
(***************************************************************************)
(* Attributes, values, passwords (util.go, hash.go).                       *)
(***************************************************************************)
AttrUserPassword == Text("userpassword")
AttrMemberOf == Text("memberof")
OperationalAttributes ==
  { Text("entryuuid"), Text("creatorsname"), Text("createtimestamp"),
    Text("modifiersname"), Text("modifytimestamp"), Text("entrycsn") }

isOperationalAttribute(attr) == \E o \in OperationalAttributes : EqualFold(attr, o)

valueMatch(attr, val1, val2) ==
  IF EqualFold(attr, AttrUserPassword) THEN val1 = val2 ELSE EqualFold(val1, val2)

\* What a hash function makes of a password: different texts for different
\* passwords.
Digest(passwd) == <<0>> \o passwd

HashTypes == { Text("{MD5}"), Text("{SSHA256}"), Text("{SSHA512}") }

ssha512Encode(passwd) == Text("{SSHA512}") \o Digest(passwd)

\* A stored value without a known type matches nothing.
matchPassword(schemaHash, passwd) ==
  \E t \in HashTypes : IsPrefix(t, schemaHash) /\ schemaHash = t \o Digest(passwd)

-----------------------------------------------------------------------------
(***************************************************************************)
(* Filters and what a search shows (read.go).                              *)
(***************************************************************************)
ConjunctionUndecided(vs) == IF \E i \in DOMAIN vs : vs[i] = "no" THEN "no" ELSE "yes"

\* The first condition that is not met, or fails, decides.
Conjunction(vs) ==
  LET i == SelectInSeq(vs, LAMBDA v : v # "yes") IN IF i = 0 THEN "yes" ELSE vs[i]
Disjunction(vs) ==
  LET i == SelectInSeq(vs, LAMBDA v : v # "no") IN IF i = 0 THEN "no" ELSE vs[i]
Negation(v) == CASE v = "yes" -> "no" [] v = "no" -> "yes" [] OTHER -> v
Truth(b) == IF b THEN "yes" ELSE "no"

HasAttribute(e, what) ==
  \E desc \in DOMAIN e.attributes : EqualFold(what, desc) /\ e.attributes[desc] # << >>
HasValue(e, ava) ==
  \E desc \in DOMAIN e.attributes :
    /\ EqualFold(desc, ava.attributeDesc)
    /\ \E val \in Get(e, desc) : valueMatch(desc, val, ava.assertionValue)

RECURSIVE applyFilter(_, _)
applyFilter(e, f) ==
  LET each == [i \in DOMAIN f.val |-> applyFilter(e, f.val[i])]
  IN CASE f.alt = "and"           -> Conjunction(each)
       [] f.alt = "or"            -> Disjunction(each)
       [] f.alt = "not"           -> Negation(applyFilter(e, f.val))
       [] f.alt = "present"       -> Truth(HasAttribute(e, f.val))
       [] f.alt = "equalityMatch" -> Truth(HasValue(e, f.val))
       [] OTHER                   -> "error"

Requested(attr, selection) ==
  \/ selection = << >>
  \/ /\ selection # <<Text("1.1")>>
     /\ \E requested \in Range(selection) :
          \/ requested = Text("*") /\ ~isOperationalAttribute(attr)
          \/ requested = Text("+") /\ isOperationalAttribute(attr)
          \/ EqualFold(requested, attr)

\* An entry as it is answered, with the attributes that were asked for and
\* that the user may read.
SearchResult(e, r) ==
  LET shown == {attr \in DOMAIN e.attributes :
                  Requested(attr, r.attributes) /\ Check(login, "read", e.dn, {attr})}
  IN [name |-> DNString(e.dn), attributes |-> [attr \in shown |-> e.attributes[attr]]]

BaseObject == 0
SingleLevel == 1

\* A search of the base object drops just that object.
InScope(e, base, scope) ==
  CASE scope = BaseObject  -> e.dn # base
    [] scope = SingleLevel -> Level(e.dn) = Level(base) + 1
    [] OTHER               -> TRUE

-----------------------------------------------------------------------------
(***************************************************************************)
(* The handlers.                                                           *)
(***************************************************************************)
AnonymousUser == [user |-> Text("ANONYMOUS"), groups |-> {}]

NoAnswer == [code |-> "none", entries |-> {}]
Answer(code) == [code |-> code, entries |-> {}]

\* A request that waits for its handler.
Requests(op) == stage = "read" /\ got.ok /\ got.val.protocolOp.alt = op
Pending == \E op \in {"BindRequest", "CompareRequest", "SearchRequest"} : Requests(op)
request == got.val.protocolOp.val

Answered == stage' = "answered" /\ UNCHANGED <<msg, size, wire, cut, intact, got>>

\* The entry found by getEntry.
Found(dn) == CHOOSE e \in List(dn, TRUE) : TRUE

\* A SASL request ends the process: the credentials are taken for a simple
\* password without a check.
BindCode(dn, auth) ==
  LET hashes == IF dn = Base THEN {ssha512Encode(Passwd)} ELSE Get(Found(dn), AttrUserPassword)
  IN IF dn = Invalid THEN "invalidDNSyntax"
     ELSE IF ~Check(login, "bind", dn, {}) THEN "insufficientAccessRights"
     ELSE IF List(dn, TRUE) = {} THEN "noSuchObject"
     ELSE IF auth.alt # "simple" THEN "panic"
     ELSE IF \E hash \in hashes : matchPassword(hash, auth.val) THEN "success"
     ELSE "invalidCredentials"

Bind ==
  /\ Requests("BindRequest")
  /\ Answered
  /\ \E dn \in {parseDN(request.name, FALSE)} :
     \E code \in {BindCode(dn, request.authentication)} :
       /\ answer' = Answer(code)
       /\ login' = IF code = "success"
                   THEN [user |-> request.name, groups |-> Get(Found(dn), AttrMemberOf)]
                   ELSE login

CompareCode(dn, attr, expected) ==
  IF dn = Invalid THEN "invalidDNSyntax"
  ELSE IF ~Check(login, "read", dn, {attr}) THEN "insufficientAccessRights"
  ELSE IF List(dn, TRUE) = {} THEN "noSuchObject"
  ELSE IF \E v \in Get(Found(dn), attr) : valueMatch(attr, v, expected) THEN "compareTrue"
  ELSE "compareFalse"

Compare ==
  /\ Requests("CompareRequest")
  /\ Answered
  /\ answer' = Answer(CompareCode(parseDN(request.entry, FALSE),
                                 ToLower(request.ava.attributeDesc),
                                 request.ava.assertionValue))
  /\ UNCHANGED login

\* The filter is applied before the rights to the entry are looked at; one
\* entry it cannot be applied to fails the whole search.
SearchAnswer(listed, r) ==
  IF \E e \in listed : applyFilter(e, r.filter) = "error" THEN Answer("unwillingToPerform")
  ELSE [code |-> "success",
        entries |-> { SearchResult(e, r) :
                        e \in {x \in listed : /\ applyFilter(x, r.filter) = "yes"
                                             /\ Check(login, "read", x.dn, {})} }]

Search ==
  /\ Requests("SearchRequest")
  /\ Answered
  /\ \E base \in {parseDN(request.baseObject, TRUE)} :
       answer' = IF base = Invalid THEN Answer("invalidDNSyntax")
                 ELSE IF ~Check(login, "read", base, {}) THEN Answer("insufficientAccessRights")
                 ELSE SearchAnswer({e \in List(base, request.scope = BaseObject) :
                                      InScope(e, base, request.scope)}, request)
  /\ UNCHANGED login

\* The next message of this connection.
Proceed == Forget /\ ~Pending /\ answer.code # "panic" /\ answer' = NoAnswer /\ UNCHANGED login

\* A connection of its own, to a server that was started anew if need be.
Connect == Forget /\ ~Pending /\ login' = AnonymousUser /\ answer' = NoAnswer

-----------------------------------------------------------------------------
BottinReadInit == GoldapInit /\ login = AnonymousUser /\ answer = NoAnswer

BottinReadNext ==
  \/ Transfer /\ UNCHANGED session
  \/ Bind
  \/ Compare
  \/ Search
  \/ Proceed
  \/ Connect

BottinReadSpec == BottinReadInit /\ [][BottinReadNext]_<<vars, session>>

-----------------------------------------------------------------------------
(***************************************************************************)
(* What a filter may amount to when the conditions the server does not     *)
(* evaluate may be either true or false.                                   *)
(***************************************************************************)
RECURSIVE Possible(_, _)
Possible(e, f) ==
  CASE f.alt \in {"and", "or"} ->
         LET each == [i \in DOMAIN f.val |-> Possible(e, f.val[i])]
         IN { IF f.alt = "and" THEN \A i \in DOMAIN v : v[i] ELSE \E i \in DOMAIN v : v[i] :
                v \in {w \in [DOMAIN each -> BOOLEAN] : \A i \in DOMAIN w : w[i] \in each[i]} }
    [] f.alt = "not"           -> { ~v : v \in Possible(e, f.val) }
    [] f.alt = "present"       -> { HasAttribute(e, f.val) }
    [] f.alt = "equalityMatch" -> { HasValue(e, f.val) }
    [] OTHER                   -> BOOLEAN

\* The entry e is at or below an entry beside dn whose name begins with
\* that of dn.
BelowNamesake(e, dn) ==
  /\ Len(e.dn) >= Len(dn)
  /\ LET top == SubSeq(e.dn, Len(e.dn) - Len(dn) + 1, Len(e.dn))
     IN /\ Tail(top) = Tail(dn) /\ top[1].type = dn[1].type
        /\ top[1] # dn[1] /\ IsPrefix(dn[1].value, top[1].value)

Asked(e, base, r) ==
  /\ r.scope = BaseObject => e.dn = base
  /\ r.scope = SingleLevel => Len(e.dn) = Len(base) + 1
  /\ Possible(e, r.filter) = {TRUE}
  /\ Check(login, "read", e.dn, {})

(***************************************************************************)
(* AnswersSearch: a search that succeeds shows every entry below its base  *)
(* that was asked for and that the user may read, and no entry elsewhere,  *)
(* each with just the attributes that were asked for and that the user may *)
(* read, however the conditions of the filter are nested, whichever of     *)
(* them the server cannot evaluate and whatever happened to the bytes on   *)
(* their way.  Two liberties are left to the code: a search of the base    *)
(* object may show nothing (InScope drops that object); and where an entry *)
(* beside the base has a name that begins with the base's, what is below   *)
(* that one may be shown too, though the interface of List promises the    *)
(* entries under the prefix alone (store.go).                              *)
(***************************************************************************)
AnswersSearch ==
  stage = "answered" /\ got.val.protocolOp.alt = "SearchRequest" /\ answer.code = "success" =>
    \A base \in {parseDN(request.baseObject, TRUE)} :
      LET asked == {e \in Entries : Asked(e, base, request)}
          below == {e \in asked : IsSuffix(base, e.dn)}
          stray == {e \in asked : BelowNamesake(e, base)}
          Shown(es) == {SearchResult(e, request) : e \in es}
      IN /\ request.scope # BaseObject => Shown(below) \subseteq answer.entries
         /\ answer.entries \subseteq Shown(below \cup stray)
=============================================================================
