--------------------------- MODULE MCGxRegisters ---------------------------
(* Every register alone, and every two registers that touch one field.     *)
EXTENDS GxRegisters

Written == ({"bp"} \X ((0..255) \ {\hFE})) \cup ({"cp"} \X (0..255)) \cup ({"xf"} \X (0..\h5F))
           \cup ({"aurora"} \X ((0..10) \cup (16..31)))

MCTouches == [e \in Written |-> Touches(e[1], e[2])]

\* The registers that touch each field.
MCWriters == LET pairs == UNION {{<<f, e>> : f \in MCTouches[e]} : e \in Written}
             IN  {{p[2] : p \in {q \in pairs : q[1] = f}} : f \in {p[1] : p \in pairs}}

\* Groups of three: fog words, scissor boxes and offset, counts of two banks,
\* an indirect matrix, vertical filter.
MCTriples == {{"bp"} \X {\hEE, \hEF, \hF0}, {"bp"} \X {\h20, \h21, \h59},
              {<<"bp", 0>>, <<"xf", \h3F>>, <<"xf", \h09>>}, {"bp"} \X {6, 7, 8},
              {"bp"} \X {1, \h53, \h54}, {<<"bp", \h64>>, <<"bp", \h65>>, <<"aurora", 8>>}}

MCFoci == UNION {{{a, b} : a, b \in group} : group \in MCWriters} \cup MCTriples

=============================================================================
