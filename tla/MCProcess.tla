---- MODULE MCProcess ----
EXTENDS Process

\* No setting, every kind of exporter and one that does not exist.
MCExporters == {"", "stdout", " OTLP ", "none", "jaeger"}
====
