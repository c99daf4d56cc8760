------------------------------ MODULE MCBottin ------------------------------
(* Small instances of Bottin for TLC. *)
EXTENDS Bottin, TLC

CONSTANTS base, u1, u2, u3, g, ou, oux, x, c1, c2

\* A flat directory of users and one group.
FlatParent == [d \in DN \ {base} |-> base]
FlatDepth  == [d \in DN |-> IF d = base THEN 1 ELSE 2]
FlatStarts == {<<d, d>> : d \in DN} \cup {<<base, d>> : d \in DN}

Plain == [BaseEntry EXCEPT !["member"] = {}]

\* The entries in es, where group h has the members ms.
Populated(es, h, ms) ==
    [d \in DN |->
        IF d \notin es THEN NoEntry
        ELSE IF d = h THEN [Plain EXCEPT !["member"] = ms]
        ELSE IF d \in ms THEN [Plain EXCEPT !["memberof"] = {h}]
        ELSE Plain]

\* Only the base; users in no group; in group g; in the base as a group.
FlatDirectories ==
    {Populated({base}, base, {}), Populated(DN, g, {}),
     Populated(DN, g, {u1, u2}), Populated(DN, base, {u1, u2})}

MemberChange(op, vals) == [op |-> op, attr |-> "member", vals |-> vals]
Single == {<<MemberChange(op, vals)>> : op \in Operation, vals \in SUBSET {u1, u2, g}}
Others == {<<[op |-> op, attr |-> "objectclass", vals |-> {"top"}]>> : op \in {"delete", "replace"}}
          \cup {<<[op |-> "replace", attr |-> "userpassword", vals |-> {c1}]>>}
\* Two changes on one member in a request.
Pairs  == {<<MemberChange(p, {u1}), MemberChange(q, {u1})>> : p, q \in Operation}
FlatChanges == Single \cup Others \cup Pairs

\* A unit with one entry, and a unit whose name continues the first one's.
TreeParent == [d \in DN \ {base} |-> IF d = x THEN ou ELSE base]
TreeDepth  == [d \in DN |-> IF d = base THEN 1 ELSE IF d = x THEN 3 ELSE 2]
TreeStarts == {<<d, d>> : d \in DN} \cup {<<base, d>> : d \in DN} \cup {<<ou, x>>, <<ou, oux>>}
NoChanges == {}
TreeDirectories == {Populated({base}, base, {}), Populated({base, ou}, base, {})}

=============================================================================
