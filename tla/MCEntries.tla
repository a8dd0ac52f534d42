----------------------------- MODULE MCEntries -----------------------------
(* Instances of Entries: one or two entries of each type, with and without  *)
(* a part of another behind them, of the right type or of another.          *)
EXTENDS Entries

Record(k, class) == [kind |-> k, val |-> [f \in Fields[k] |-> 0]]
Zeros(k, class, size) ==
  [class |-> class, shtype |-> k, d_type |-> k, d_size |-> size, dirty |-> FALSE,
   d_buf |-> [o \in {n * sizeof(k, class) : n \in 0..(size \div sizeof(k, class)) - 1} |->
                Record(k, class)]]
Table(k, class, n, rest) == Zeros(k, class, n * sizeof(k, class) + rest)

MCTables ==
  {[d |-> Table(k, c, 2, rest), x |-> NoTable] :
     k \in (Tc \cup Eu \cup {"VDEF", "VNEED"}) \ {"SYM"}, c \in Classes, rest \in {0, 4}}
  \cup {[d |-> Table("SYM", c, 2, rest), x |-> x0] :
          c \in Classes, rest \in {0, 4},
          x0 \in {NoTable, Table("WORD", 64, 1, 0), Table("WORD", 64, 2, 0), Table("WORD", 64, 1, 2)}}
  \* the section was given another type after its data was read
  \cup {[d |-> [Table("REL", c, 3, 0) EXCEPT !.shtype = "RELA"], x |-> NoTable] : c \in Classes}
  \cup {[d |-> [Table("VNEED", c, 2, 0) EXCEPT !.shtype = s], x |-> NoTable] :
          c \in Classes, s \in {"HALF", "VDEF"}}
  \* the application calls its symbols words
  \cup {[d |-> [Table("SYM", 32, 2, 0) EXCEPT !.d_type = "WORD"], x |-> Table("WORD", 64, n, 4 - 2 * n)] :
          n \in {1, 2}}

\* Fields that a check is made of.
Wide == {"st_value", "st_size", "r_offset", "d_val", "c_tag", "c_val", "m_info", "a_val"}
MCValues(k, class) ==
  LET one == [f \in Fields[k] |-> 1] IN
  {one} \cup {[one EXCEPT ![f] = 4] : f \in Fields[k] \cap Wide}
        \cup {[one EXCEPT ![f] = n] : f \in Fields[k] \cap {"d_tag", "r_addend"}, n \in {-3, -2}}
        \cup {[one EXCEPT ![f] = n] : f \in Fields[k] \cap {"r_info"}, n \in {2, 4, 8}}
MCWords == {0, 2}
MCPlaces == {-1, 0, 1, 2}
MCOffsets == {-4, 0, 2, 4, 8, 16, 20}
=============================================================================
