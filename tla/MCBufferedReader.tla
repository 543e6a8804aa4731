-------------------------- MODULE MCBufferedReader --------------------------
(* BufferedReader on short streams: two headers back to back with a body,  *)
(* a blank line that starts with a false start, one that never comes.      *)
EXTENDS BufferedReader

CONSTANT X

MCByte == {CR, LF, X}

MCStreams ==
    { <<CR, LF, CR, LF, X, X, CR, LF, CR, LF>>,
      <<X, CR, LF, CR, LF, X, X, X, X>>,
      <<CR, CR, LF, CR, LF, CR, LF>>,
      <<X, X, X, CR, LF, CR, LF, X>>,
      <<X, X, X, X, X, X, X, CR, LF, CR, LF>>,
      <<X, LF, CR, LF>> }

=============================================================================
