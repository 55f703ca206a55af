---------------------------- MODULE MCFrameStream ----------------------------
EXTENDS FrameStream

\* A hole between two frames, a control frame among events, an RPC response behind them;
\* a frame too large for a batch.
MCScripts == {<<"event", "request", "event">>, <<"request", "sensitive", "response">>,
              <<"bulk", "request">>}
=============================================================================
