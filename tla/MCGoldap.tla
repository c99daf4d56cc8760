------------------------------ MODULE MCGoldap ------------------------------
(***************************************************************************)
(* One or more messages of every kind: with and without each optional      *)
(* component, with empty and with repeated lists, with strings and         *)
(* integers on both sides of their encoding's boundaries.  Requests that   *)
(* are read are answered from a directory of four entries.                 *)
(***************************************************************************)
EXTENDS BottinRead

a == <<97>>
none == << >>
long == [i \in 1..126 |-> 97]

Assertion == [attributeDesc |-> a, assertionValue |-> <<98, 0>>]
Results ==
  { [resultCode |-> 0, matchedDN |-> none, diagnosticMessage |-> none],
    [resultCode |-> 80, matchedDN |-> a, diagnosticMessage |-> <<200>>, referral |-> <<a, none>>] }

Is(alt, val) == [alt |-> alt, val |-> val]

LeafFilters ==
  { Is("equalityMatch", Assertion), Is("greaterOrEqual", Assertion),
    Is("lessOrEqual", Assertion), Is("approxMatch", Assertion), Is("present", a),
    Is("substrings", [type |-> a, substrings |-> <<Is("initial", a), Is("any", none), Is("any", a), Is("final", a)>>]),
    Is("extensibleMatch", [matchValue |-> a, dnAttributes |-> TRUE]),
    Is("extensibleMatch", [matchingRule |-> a, type |-> a, matchValue |-> a, dnAttributes |-> FALSE]) }
Filters ==
  LeafFilters \cup
  { Is("and", <<Is("present", a), Is("not", Is("or", <<Is("present", a)>>))>>),
    Is("not", Is("equalityMatch", Assertion)) }

SearchFor(f, limit, selection) ==
  [baseObject |-> a, scope |-> 2, derefAliases |-> 3, sizeLimit |-> limit,
   timeLimit |-> 0, typesOnly |-> FALSE, filter |-> f, attributes |-> selection]

Attr(vals) == [type |-> a, vals |-> vals]

MCPasswords ==
  { [c \in S |-> IF c = "oldPassword" THEN a ELSE <<98>>] :
      S \in SUBSET {"userIdentity", "oldPassword", "newPassword"} }

Operations ==
  { Is("BindRequest", [version |-> 3, name |-> a, authentication |-> Is("simple", a)]),
    Is("BindRequest", [version |-> 127, name |-> none, authentication |-> Is("sasl", [mechanism |-> a])]),
    Is("BindRequest", [version |-> 1, name |-> none,
                       authentication |-> Is("sasl", [mechanism |-> a, credentials |-> none])]),
    Is("UnbindRequest", "null"),
    Is("SearchResultEntry", [objectName |-> long, attributes |-> <<Attr(none), Attr(<<a, none>>)>>]),
    Is("SearchResultEntry", [objectName |-> none, attributes |-> none]),
    Is("SearchResultReference", <<a, a>>),
    Is("ModifyRequest", [object |-> a, changes |->
        <<[operation |-> 1, modification |-> Attr(none)], [operation |-> 2, modification |-> Attr(<<a>>)]>>]),
    Is("AddRequest", [entry |-> a, attributes |-> <<Attr(<<a, a>>)>>]),
    Is("DelRequest", a),
    Is("ModifyDNRequest", [entry |-> a, newrdn |-> a, deleteoldrdn |-> TRUE]),
    Is("ModifyDNRequest", [entry |-> a, newrdn |-> a, deleteoldrdn |-> FALSE, newSuperior |-> a]),
    Is("CompareRequest", [entry |-> a, ava |-> Assertion]),
    Is("AbandonRequest", 128),
    Is("ExtendedRequest", [requestName |-> a]),
    Is("ExtendedRequest", [requestName |-> a, requestValue |-> none]),
    Is("IntermediateResponse", [responseName |-> a]),
    Is("IntermediateResponse", [responseValue |-> a]) }
  \cup { Is("ExtendedRequest", [requestName |-> a, requestValue |-> Write(PasswordModifyRequest, p)]) : p \in MCPasswords }
  \cup { Is("SearchRequest", SearchFor(f, 0, none)) : f \in Filters }
  \cup { Is("SearchRequest", SearchFor(Is("present", a), limit, <<a, none>>)) : limit \in {127, 255, 32768, maxInt} }
  \cup { Is(alt, r) : alt \in {"BindResponse", "SearchResultDone", "ModifyResponse", "AddResponse",
                               "DelResponse", "ModifyDNResponse", "CompareResponse"}, r \in Results }
  \cup { Is("BindResponse", ("serverSaslCreds" :> a) @@ r) : r \in Results }
  \cup { Is("ExtendedResponse", x @@ r) : r \in Results,
           x \in {[responseName |-> a], [responseValue |-> a], [responseName |-> a, responseValue |-> a]} }

-----------------------------------------------------------------------------
\* A small directory under the default rules of the server, with names
\* shortened; one user is in the group that may do anything.
MCBaseDN == Text("o=a")
MCPasswd == Text("r")
MCACLDef ==
  << Text("ANONYMOUS::bind:*,o=a:"),
     Text("ANONYMOUS::bind:o=a:"),
     Text("*,o=a::read:*:* !userpassword"),
     Text("*::read modify:SELF:*"),
     Text("o=a::read add modify delete:*:*"),
     Text("*:g=w,o=a:read add modify delete:*:*") >>
MCStored ==
  { [name |-> Text("o=a"), attributes |-> Text("creatorsname") :> <<Text("o=a")>>],
    [name |-> Text("u=b,o=a"), attributes |->
       Text("n") :> <<Text("X"), Text("z")>> @@ AttrUserPassword :> <<Text("{MD5}") \o Digest(Text("p"))>>],
    [name |-> Text("u=bc,o=a"), attributes |->
       Text("n") :> << >> @@ AttrMemberOf :> <<Text("g=w,o=a")>>
       @@ AttrUserPassword :> <<Text("q"), ssha512Encode(Text("q"))>>],
    [name |-> Text("k=1,u=bc,o=a"), attributes |-> Text("entryuuid") :> <<Text("5")>> @@ Text("n") :> <<Text("y")>>] }

BindAs(name, passwd) ==
  Is("BindRequest", [version |-> 3, name |-> Text(name), authentication |-> Is("simple", Text(passwd))])

Has(attr) == Is("present", Text(attr))
Equals(attr, val) == Is("equalityMatch", [attributeDesc |-> Text(attr), assertionValue |-> Text(val)])
Unsupported == Is("approxMatch", [attributeDesc |-> Text("n"), assertionValue |-> none])

Find(base, scope, f, selection) ==
  Is("SearchRequest",
     [SearchFor(f, 0, selection) EXCEPT !.baseObject = Text(base), !.scope = scope])

DirectoryOperations ==
  { BindAs("o=a", "r"), BindAs("u=b,o=a", "p"), BindAs("u=b,o=a", "q"), BindAs("U=bc, o=a", "q"),
    BindAs("u=c,o=a", "p"), BindAs("u=b,o=b", "p"),
    Is("BindRequest", [version |-> 3, name |-> Text("u=b,o=a"), authentication |-> Is("sasl", [mechanism |-> a])]) }
  \cup { Is("CompareRequest", [entry |-> Text(name), ava |-> [attributeDesc |-> Text("N"), assertionValue |-> Text("x")]]) :
           name \in {"u=b,o=a", "u=bc,o=a", "u=c,o=a"} }
  \cup { Find(base, scope, Has("n"), none) : base \in {"o=a", "u=b,o=a"}, scope \in 0..2 }
  \cup { Find("o=a", 2, f, <<Text("*")>>) :
           f \in { Equals("N", "x"), Is("not", Equals("userpassword", "Q")),
                   Is("and", <<Has("n"), Unsupported>>), Is("and", <<Has("j"), Unsupported>>),
                   Is("or", <<Has("u"), Has("o"), Unsupported>>),
                   Is("not", Is("or", <<Has("o"), Is("and", <<Has("k"), Has("n")>>)>>)) } }
  \cup { Find("o=a", 1, Has("u"), selection) :
           selection \in { <<Text("1.1")>>, <<Text("1.1"), Text("N")>>, <<Text("+")>> } }

MCMessages ==
  { [messageID |-> 1, protocolOp |-> op] : op \in Operations \cup DirectoryOperations }
  \cup { [messageID |-> id, protocolOp |-> Is("DelRequest", a), controls |-> cs] :
           id \in {0, 127, 128, maxInt},
           cs \in { none, <<[controlType |-> a], [controlType |-> a, criticality |-> TRUE, controlValue |-> a]>> } }

MCDamageBytes == {0, 1, 31, 48, 80, 127, 129, 255}
=============================================================================
