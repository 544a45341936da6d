--------------------------- MODULE MCModelCatalog ---------------------------
(***************************************************************************)
(* An instance of ModelCatalog for TLC.                                    *)
(***************************************************************************)
EXTENDS ModelCatalog

CONSTANTS a, b, h

MCNames == {<<Blank>>, <<a>>, <<b>>, <<a, b>>}

Listed(name, time) == [name |-> name, model |-> <<Blank>>, time |-> time, host |-> Blank]
Remote(name, time) == [name |-> <<Blank>>, model |-> name, time |-> time, host |-> h]
Running(name, time) == [name |-> name, model |-> <<Blank>>, time |-> time]

\* Lists with an entry for one model or for two, twice, without a name, with a
\* comma in it, without a time, at the epoch.
Lists ==
    {<<>>, <<Listed(<<a>>, NoTime)>>, <<Remote(<<a>>, 2)>>,
     <<Listed(<<b>>, 0), Remote(<<a>>, 3)>>, <<Listed(<<a>>, 2), Listed(<<a>>, 0)>>,
     <<Listed(<<Blank>>, 2), Listed(<<a, b>>, 3)>>}

Processes == {<<>>, <<Running(<<a>>, 4)>>, <<Running(<<b>>, 4), Running(<<b>>, NoTime)>>}

MCAnswers ==
    {[ok |-> TRUE, list |-> list, ps |-> ps] : list \in Lists, ps \in Processes}
    \union {[ok |-> FALSE, list |-> <<>>, ps |-> <<>>]}
=============================================================================
