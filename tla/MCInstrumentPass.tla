-------------------------- MODULE MCInstrumentPass --------------------------
(***************************************************************************)
(* Modules of main and one function of up to four instructions, and one    *)
(* module with every kind of function.  Addresses: x and y are shared,     *)
(* the others stand for one reason each to leave an access out.            *)
(***************************************************************************)
EXTENDS InstrumentPass

CONSTANT MaxBody

MCBits == [x |-> 32, y |-> 64, const |-> 32, stack |-> 32, gcov |-> 64,
           lb |-> 32, swift |-> 64, odd |-> 24, packed |-> 32]
MCAlignment == [x |-> 4, y |-> 8, const |-> 4, stack |-> 0, gcov |-> 8,
                lb |-> 4, swift |-> 8, odd |-> 1, packed |-> 1]
MCConstant == {"const"}
MCUncaptured == {"stack"}
MCProfile == {"gcov"}
MCBookkeeping == {"lb"}
MCSwiftError == {"swift"}

I(o, a) == [op |-> o, addr |-> a, fn |-> "none", value |-> "none"]
Rmw(f) == [I("rmw", "y") EXCEPT !.fn = f]
StoreAddress(a, v) == [I("store", a) EXCEPT !.value = v]

Instructions ==
  {I(o, a) : o \in {"load", "store"}, a \in {"x", "lb"}}
    \cup {I("load", "y"), I("store", "stack"), I("load", "const"),
     StoreAddress("x", "lb")}
    \cup {I("call", "x"), I("br", "x"), I("atomic store", "y"), Rmw("fetch_add")}

\* One of each of the rest.
Others ==
  {I("store", "gcov"), I("load", "swift"), I("store", "odd"), I("load", "packed"),
   I("memset", "x"), I("atomic load", "y"), I("atomic store", "odd"), I("cas", "y"),
   I("fence", "x"), Rmw("max"), Rmw("exchange")}

Bodies == UNION {[1..n -> Instructions] : n \in 1..MaxBody}
            \cup {<<i, o, j>> : i \in {I("load", "x"), I("store", "x")}, o \in Others,
                                j \in {I("load", "x"), I("store", "x"), I("br", "x")}}

Main == [kind |-> "main", body |-> <<>>]
F(k, b) == [kind |-> k, body |-> b]

MCModules ==
  {<<Main, F("outlined", b)>> : b \in Bodies}
    \cup {<<F("other", b), Main>> : b \in {b \in Bodies : Len(b) < MaxBody}}
    \cup {<<F("skipped", <<>>), F("other", <<I("load", "x")>>), F("outlined", <<I("store", "x")>>)>>}

=============================================================================
