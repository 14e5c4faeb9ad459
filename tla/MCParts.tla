-------------------------------- MODULE MCParts --------------------------------
(***************************************************************************)
(* The parts that have nothing to do with each other, for TLC: a behaviour *)
(* is one of one part, the others stay as they are.                        *)
(***************************************************************************)
EXTENDS ConfigHandler, ByteBuffer, Srp6, StreamCrypto, MCCommands,
        AtomicLock, SharedPool, DebugHandler

VARIABLE part \* the one that moves

\* Files of up to two options on a level and up to three levels; the second
\* option of the top level has at most one level below it.
Leaves == {Null, Scalar("number", 1), Scalar("number", 2), Scalar("string", 1)}
StructuresOf(A, B) ==
    {Structure(<<>>)} \cup {Structure(<<Item("a", v)>>) : v \in A}
    \cup {Structure(<<Item("b", v)>>) : v \in B}
    \cup {Structure(<<Item("a", v), Item("b", w)>>) : v \in A, w \in B}
Level1 == Leaves \cup StructuresOf(Leaves, Leaves)
Few == {Null, Scalar("number", 3)} \cup StructuresOf({Scalar("number", 4)}, {Scalar("number", 5)})
AllFiles == Leaves \cup StructuresOf(Leaves \cup StructuresOf(Few, Few), Level1)

TwoWords == {<<0, 3>>, <<2, 0>>}

AllKeys == 1..Modulus - 1

\* A digest of three digits that differs for all sequences of two.
ToyHash(bytes) ==
    LET n == FoldLeft(LAMBDA h, d : (h * Base + d + 1) % Base^3, 0, bytes) IN
    <<n % Base, (n \div Base) % Base, n \div (Base * Base)>>

\* Two of them start in many ways, and in one when it is not their turn.
ConfigRests == /\ file = Null /\ _configFile = NotLoaded /\ asked = "a" /\ type = "string"
               /\ option = [kind |-> "none"]
SrpRests == SrpInit /\ account = [salt |-> 1, passwordKey |-> 1] /\ _passwordKey = 1

PartsInit ==
    /\ BufferInit /\ CryptoInit /\ Init /\ LockInit /\ PoolInit /\ DebugInit
    /\ part \in {"config", "buffer", "srp", "crypto", "commands", "lock", "pool", "log"}
    /\ IF part = "config" THEN ConfigInit ELSE ConfigRests
    /\ IF part = "srp" THEN SrpInit ELSE SrpRests

Moves(name, next) == part = name /\ next
Rests(name, variables) == part # name => UNCHANGED variables

PartsNext ==
    /\ UNCHANGED part
    /\ Rests("config", configVars) /\ Rests("buffer", bufferVars) /\ Rests("srp", srpVars)
    /\ Rests("crypto", cryptoVars) /\ Rests("commands", vars) /\ Rests("lock", lockVars)
    /\ Rests("pool", poolVars) /\ Rests("log", debugVars)
    /\ \/ Moves("config", ConfigNext) \/ Moves("buffer", BufferNext)
       \/ Moves("srp", SrpNext)       \/ Moves("crypto", CryptoNext)
       \/ Moves("commands", Next)     \/ Moves("lock", LockNext)
       \/ Moves("pool", PoolNext)     \/ Moves("log", DebugNext)

partsVars == <<configVars, bufferVars, srpVars, cryptoVars, vars, lockVars, poolVars, debugVars, part>>

PartsSpec == PartsInit /\ [][PartsNext]_partsVars
================================================================================
