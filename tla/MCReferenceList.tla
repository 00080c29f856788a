-------------------------- MODULE MCReferenceList ---------------------------
EXTENDS ReferenceList

\* Rows 1 and 2 may be written, 3 is hidden by the repo, 4 may not be touched.
Ref1(op, r) == [op |-> op, row |-> r]
MCDenied == {<<op, 4>> : op \in {"update", "unlink", "delete", "upsert"}}
Refs == {Ref1("create", 0)} \cup
        {Ref1(op, r) : op \in {"update", "unlink", "delete"}, r \in 1 .. 4} \cup
        {Ref1("upsert", r) : r \in {1, 3, 4}}
\* An item that deletes a row another item of the list links has no answer.
Sensible(l) == ~ \E i, j \in DOMAIN l :
    l[i].row = l[j].row /\ l[i].op = "delete" /\ l[j].op # "delete"
MCLists == {l \in {<<a>> : a \in Refs} \cup {<<a, b>> : a \in Refs, b \in Refs} : Sensible(l)}
           \cup {<<Ref1("update", 1), Ref1("upsert", 3), Ref1("delete", 2)>>,
                 <<Ref1("unlink", 1), Ref1("create", 0), Ref1("update", 2)>>}
=============================================================================
