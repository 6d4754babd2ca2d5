----------------------------- MODULE MCSqlObjects -----------------------------
(***************************************************************************)
(* The small instance of SqlObjects: a database and a schema or an         *)
(* extension in it, or a MySQL and an MSSQL database, each with a          *)
(* specification that leaves fields open and one that sets them.           *)
(***************************************************************************)
EXTENDS SqlObjects, TLC

CONSTANTS a, b

MCPlacements == {a :> "database" @@ b :> "schema",
                 a :> "database" @@ b :> "extension",
                 a :> "mysqldb" @@ b :> "mssqldb"}
MCHome  == a :> a @@ b :> a
MCSpecs == UNION {Parameters(k) : k \in Kinds}

Database(owner, template, encoding) ==
    "owner" :> owner @@ "template" :> template @@ "encoding" :> encoding
MCChoices ==
    a :> {Database("v2", Unset, "v2"), Database("ghost", "v2", Unset),
          "charset" :> "v2" @@ "collation" :> Unset,
          "charset" :> "v2" @@ "collation" :> "v2"} @@
    b :> {"owner" :> Unset @@ "dropBehavior" :> Unset @@ "revokePublic" :> "v2",
          "owner" :> "v2" @@ "dropBehavior" :> "v2" @@ "revokePublic" :> Unset,
          "version" :> "v2", <<>>}
===============================================================================
