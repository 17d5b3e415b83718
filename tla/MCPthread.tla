----------------------------- MODULE MCPthread -----------------------------
(* Programs for three threads; t1 is the one that exists from the start in  *)
(* the programs about creating threads.                                     *)
EXTENDS PthreadLife, TLC

CONSTANTS t1, t2, t3

ProgramOf(type, trip, batch, born, c1, c2, c3) ==
  [type |-> type, trip |-> trip, batch |-> batch, born |-> born,
   whom |-> (t1 :> t2 @@ t2 :> t3 @@ t3 :> None),
   code |-> (t1 :> c1 @@ t2 :> c2 @@ t3 :> c3)]

Program(type, trip, born, c1, c2, c3) ==
  ProgramOf(type, trip, 1, born, c1, c2, c3)

All == {t1, t2, t3}
Section == <<"lock", "unlock">>
Waiter == <<"lock", "wait", "unlock">>

SyncPrograms ==
  { Program("normal", 1, All, Section \o Section, Section, Section),
    Program("normal", 1, All, Section, <<"timedlock", "unlock">>, <<"trylock", "unlock">>),
    Program("recursive", 1, All, <<"lock", "lock", "lock", "unlock", "unlock", "unlock">>,
            Section, Section),
    Program("errorcheck", 1, All, <<"lock", "lock", "unlock", "unlock">>, Section, <<>>),
    Program("normal", 1, All, Waiter, <<"lock", "set", "signal", "unlock">>, Section),
    Program("normal", 1, All, <<"lock", "timedwait", "unlock">>,
            <<"lock", "set", "unlock", "signal">>, Section),
    Program("normal", 1, All, <<"wait", "lock", "unlock">>, <<"broadcast">>, <<>>),
    Program("normal", 1, All, Waiter, <<"lock", "set", "unlock", "broadcast">>,
            <<"lock", "timedwait", "unlock">>),
    Program("normal", 1, All, Waiter, <<"lock", "set", "broadcast", "unlock">>, <<>>),
    Program("normal", 1, All, Waiter, <<"lock", "set", "unlock", "broadcast">> \o Section, Waiter),
    Program("normal", 1, All, <<"once", "once">>, <<"once">>, <<"once">>),
    Program("normal", 1, All, <<"rdlock", "rwunlock", "wrlock", "rwunlock">>,
            <<"wrlock", "rwunlock">>, <<"rdlock", "rwunlock">>),
    Program("normal", 1, All, <<"rwunlock", "rdlock", "rwunlock">>, <<>>, <<>>),
    Program("normal", 1, All, <<"rdlock", "rwunlock">>, <<"trywrlock">>, <<"tryrdlock">>),
    Program("normal", 1, All, <<"tryrdlock">>, <<"tryrdlock">>, <<"tryrdlock">>),
    Program("normal", 1, All, <<"spinlock", "spinunlock">>, <<"spinlock", "spinunlock">>,
            <<"spinlock", "spinunlock">>),
    Program("normal", 3, All, <<"barrier">>, <<"barrier">>, <<"barrier">>),
    ProgramOf("normal", 3, 3, All, <<"barrier", "barrier">>, <<"barrier", "barrier">>,
            <<"barrier", "barrier">>) }

LifePrograms ==
  { Program("normal", 1, {t1}, <<"create", "join">>, <<"create", "join">>, <<"once">>),
    Program("normal", 1, {t1}, <<"create", "lock", "unlock">>,
            <<"detach_self", "lock", "create", "unlock">>, <<"detach_self">>),
    Program("normal", 1, {t1}, <<"create_detached">>, <<"create", "detach">>, <<>>) }

MCPrograms == SyncPrograms \cup LifePrograms
=============================================================================
