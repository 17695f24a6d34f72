---------------------------- MODULE MCMqttClient ----------------------------
\* Instances of the MQTT client: a QoS 2 message, then a subscription or a QoS 0
\* message; and two requests of which the second may have the id of the first.
EXTENDS MqttClient

CONSTANTS r1, r2

MCKinds == {[r \in Req |-> IF r = r1 THEN "pub2" ELSE k] : k \in {"sub", "pub0"}}
=============================================================================
