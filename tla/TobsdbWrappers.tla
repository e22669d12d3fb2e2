--------------------------- MODULE TobsdbWrappers ---------------------------
(***************************************************************************)
(* The eight typed wrappers of Tobsdb, as the table of what each passes to *)
(* the private query primitive.  A wrapper fixes the action name, whether *)
(* the request carries Some(data) or None for "data", Some(where) or None  *)
(* for "where", and whether it decodes into TdbResponse (one record) or    *)
(* TdbResponseMany (a list of records).  Table names and payloads are data *)
(* no property tells apart and are left out.                               *)
(***************************************************************************)

\* The action names the wrappers put into the "action" field.
Actions == {"create", "createMany", "findUnique", "findMany",
            "updateUnique", "updateMany", "deleteUnique", "deleteMany"}

\* Wrappers whose result type is TdbResponseMany (data: Option<Vec<D>>);
\* the other four use TdbResponse (data: Option<D>).  The same in both
\* client trees.
ManyActions == {"createMany", "findMany", "updateMany", "deleteMany"}

\* Mutant of GenericDataActions: update_many passes None::<()> for data, as
\* the legacy client does.
GenericDataActionsNoUpdateMany == {"create", "createMany", "updateUnique"}

\* Generic client (tools/client): create and createMany pass Some(data) and
\* None::<()> for where; update_unqiue and update_many pass both; the find
\* and delete wrappers pass None::<()> for data and Some(where_constraint).
GenericDataActions == {"create", "createMany", "updateUnique", "updateMany"}

GenericWhereActions == Actions \ {"create", "createMany"}

\* Legacy client (client/rust): the same, except that update_unqiue and
\* update_many take only a where_constraint and pass None::<()> for data.
LegacyDataActions == {"create", "createMany"}

LegacyWhereActions == Actions \ {"create", "createMany"}

\* The request shape the specification documents for every operation:
\* create/createMany omit where, find and delete omit data, updates carry
\* both.  This is the reference the envelope property compares against.
SpecDataActions == {"create", "createMany", "updateUnique", "updateMany"}

SpecWhereActions == Actions \ {"create", "createMany"}

=============================================================================
