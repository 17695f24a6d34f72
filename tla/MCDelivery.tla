----------------------------- MODULE MCDelivery -----------------------------
\* Instances of the broker's delivery to one client.
EXTENDS Delivery

MCQos == <<2, 1>>
MCQosLive == <<2>>
=============================================================================
