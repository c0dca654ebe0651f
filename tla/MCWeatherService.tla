-------------------------- MODULE MCWeatherService --------------------------
(* WeatherService for TLC. *)
EXTENDS WeatherService

=============================================================================
