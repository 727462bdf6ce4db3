------------------------------ MODULE MCFields ------------------------------
(***************************************************************************)
(* Small instances of FieldPolicy: a folder f and the subnets a and b (or  *)
(* two addresses, or VLANs) in two listings.  A custom field is set on b   *)
(* and, at first, on nothing of the first listing.                         *)
(***************************************************************************)
EXTENDS FieldPolicy

\* Subnets with custom fields in a block or not, on either side; addresses on both
\* or none; VLANs where they can be compared.  The source's API has booleans where
\* the target's has texts.
SomeSetups ==
  {x \in SetupType : /\ x.source.style = "bool" /\ x.target.style = "str"
                     /\ x.sync_tags = x.target.nested
                     /\ x.kind = "address" => x.source.nested = x.target.nested
                     /\ x.kind = "vlan" => ~x.target.nested}

\* Subnets or addresses, with custom fields in a block at one end only.
MismatchedSetups ==
  {x \in SetupType : /\ x.source.style = "bool" /\ x.target.style = "str"
                     /\ x.sync_tags
                     /\ x.kind # "vlan"
                     /\ x.source.nested # x.target.nested}

TwoListings == << {"f", "a"}, {"b"} >>

Row(description, tag, custom) ==
  [c \in Stock("subnet") \cup Custom |->
     CASE c = "description" -> description
       [] c = "tag" -> tag
       [] c \in Custom -> custom[c]
       [] c \in Excluded \cup Unknown -> "1"]

NoCustom == [c \in Custom |-> Null]

OwnerSet == [NoCustom EXCEPT !["Owner"] = "1"]

SourceRows ==
  {[r \in {"f", "a", "b"} |->
      IF r = "b" THEN Row("1", "1", OwnerSet) ELSE Row("1", Null, NoCustom)]}

\* One record is there, with other contents and both custom fields set.
TargetRowsThen ==
  {[r \in {"a"} |-> Row(Null, "1", [c \in Custom |-> "1"])]}
=============================================================================
