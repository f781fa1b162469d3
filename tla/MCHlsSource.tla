---------------------------- MODULE MCHlsSource -----------------------------
EXTENDS HlsSource
=============================================================================
