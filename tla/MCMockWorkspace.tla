--------------------------- MODULE MCMockWorkspace ---------------------------
(***************************************************************************)
(* Instances of MockWorkspace: versions of one document, and what each of  *)
(* them has the provider do wrong.                                         *)
(***************************************************************************)
EXTENDS MockWorkspace

Column(n, type) == [name |-> n, type |-> type]
Table(columns)  == [name |-> "t", columns |-> columns]
Db(engine, tables) == [name |-> "x", engine |-> engine, region |-> "eu", tables |-> tables]
User(role, displayName) == [name |-> "u", role |-> role, displayName |-> displayName]
Sub(plan, currency) == [user |-> "u", plan |-> plan, currency |-> currency]

NoFailure == [failResourceKey |-> <<>>, failureMode |-> "permanent", failAttempts |-> 9,
              driftResourceKey |-> <<>>]

Fails(key, mode, attempts) ==
    [NoFailure EXCEPT !.failResourceKey = key, !.failureMode = mode, !.failAttempts = attempts]

Version(databases, users, subscriptions, simulate) ==
    [databases |-> databases, users |-> users, subscriptions |-> subscriptions,
     simulate |-> simulate]

Wide   == Table(<<Column("a", "text"), Column("b", "json")>>)
Narrow == Table(<<Column("a", "text")>>)
Shifted == Table(<<Column("b", "json"), Column("a", "text")>>)

MCSpec == [
    full    |-> Version(<<Db("mysql", <<Wide>>)>>, <<User("admin", "Ann")>>, <<Sub("pro", "eur")>>, NoFailure),
    narrow  |-> Version(<<Db("mysql", <<Narrow>>)>>, <<User("member", "undefined")>>, <<Sub("free", "eur")>>,
                        Fails(tableKey("x", "t"), "retryable", 1)),
    smaller |-> Version(<<Db("mysql", <<>>)>>, <<User("admin", "undefined")>>, <<>>,
                        [NoFailure EXCEPT !.driftResourceKey = databaseKey("x")]),
    other   |-> Version(<<Db("sqlite", <<Shifted>>)>>, <<User("member", "Ann")>>, <<Sub("pro", "usd")>>,
                        Fails(userKey("u"), "timeout", 9)),
    shifted |-> Version(<<Db("mysql", <<Shifted>>)>>, <<User("member", "Ann")>>, <<Sub("pro", "usd")>>,
                        Fails(userKey("u"), "permanent", 9)),
    twice   |-> Version(<<Db("mysql", <<Narrow, Narrow>>)>>, <<>>, <<Sub("pro", "usd")>>, NoFailure)]

MCScalars ==
    {"a", "b", "text", "json", "mysql", "sqlite", "eu", "drifted-region", "admin", "member",
     "Ann", "undefined", "free", "pro", "eur", "usd", "null"}

MCOptions ==
    [r \in DOMAIN MCSpec |-> [allowDelete |-> r # "narrow", allowReplace |-> r \in {"other", "shifted"}]]
=============================================================================
