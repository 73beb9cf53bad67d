--------------------------- MODULE MCHttpExchange ---------------------------
\* HttpExchange for TLC: bodies of up to one piece, and a Content-Length of the
\* handler's own that is short of it, right, or past it.
EXTENDS HttpExchange
=============================================================================
