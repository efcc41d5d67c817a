------------------------------ MODULE MCPaging ------------------------------
(* Instances of Paging for TLC. *)
EXTENDS Paging

Sort(by, dir, idDir) == [by |-> by, dir |-> dir, idDir |-> idDir, mode |-> "all", conditions |-> {}]
Filtered(request, conditions) == [request EXCEPT !.conditions = conditions]
Is(op, value) == [op |-> op, value |-> value]

NewestFirst == Sort("v", "desc", "unset")
Plain == {NewestFirst, Sort("v", "asc", "asc"), Sort("id", "desc", "unset"), Sort("id", "asc", "asc")}
Some == {Filtered(NewestFirst, {Is("gte", 1), Is("ne", 2)}),
         Filtered(NewestFirst, {Is("in", {1})}),
         Filtered(Sort("v", "asc", "asc"), {Is("nin", {1}), Is("lte", 2)}),
         Filtered(NewestFirst, {Is("eq", 2)}), Filtered(NewestFirst, {Is("lt", 2)}), Filtered(NewestFirst, {Is("gt", 1)})}
Groups == {[Filtered(NewestFirst, {Is("eq", 1), Is("gt", 2)}) EXCEPT !.mode = "any"],
           [Filtered(NewestFirst, {Is("eq", 1)}) EXCEPT !.mode = "none"]}
\* A sort in which the client's order is another than the server's.
Ascending == {Sort("v", "asc", "unset")}
\* A `:not` of two conditions.
Denied == {[Filtered(NewestFirst, {Is("eq", 1), Is("eq", 2)}) EXCEPT !.mode = "none"]}
\* Ids whose plain strings are in the order of their types, and in the other one.
SameText == [i \in Ids |-> i]
OtherText == [i \in Ids |-> IF i \in Uuids THEN i + Cardinality(Ids) ELSE i]
PlainOrSome == Plain \cup Some \cup Groups
=============================================================================
