----------------------------- MODULE MCOcrCalls -----------------------------
EXTENDS OcrCalls
CONSTANTS c1, c2, k1

\* Two callers with two attempts each; the first reads PDFs.
MCCallers == {c1, c2}
MCRequests == {c1, c2} \X {1, 2}
\* The names of the keys do not matter: the first caller asks for k1.
MCWanted == {w \in [MCCallers -> Asked] : w[c1] = k1}
MCPdfs == {c1} \X {1, 2}
=============================================================================
